---- MODULE Spec2Model ----
(***************************************************************************)
(* Technical-Lag-Analyzer: the semver distance engine                      *)
(* (internal/semver/semver.go) and the concurrent lag calculator           *)
(* (internal/technicalLag/technicalLag.go).                                *)
(*                                                                         *)
(* SpecSemver drives GetVersionDistance and GetLibyear over bounded        *)
(* version histories; SpecCalculate / FairSpecCalculate drive              *)
(* Calculator.Calculate with its producer, worker pool, closer and the     *)
(* collecting main flow.                                                   *)
(***************************************************************************)
EXTENDS Integers, Sequences, FiniteSets, TLC

VARIABLES
    \* ---- semver harness ----
    usedVersion,    \* the used version string handed to both metrics
    versions,       \* []deps.Version handed to GetLibyear; GetVersionDistance gets its Version fields
    distance,       \* result of the last GetVersionDistance call on (usedVersion, versions)
    libyear,        \* result of the last GetLibyear call on (usedVersion, versions)
    addedAt,        \* 0, or the position at which one more candidate was put into versions
    oldDistance,    \* GetVersionDistance result before that candidate was added
    oldLibyear,     \* GetLibyear result before that candidate was added
    \* ---- Calculator.Calculate ----
    bom,            \* the manifest: components (a sequence) or no components collection
    configured,     \* how the Calculator was made: the entry point and the pool size asked for
    maxWorkers,     \* calc.maxWorkers
    cancelled,      \* ctx.Done() is closed
    jobs,           \* buffered channel of componentJob (indices into components)
    jobsClosed,
    results,        \* buffered channel of componentResult
    resultsClosed,
    producer,       \* the job-sending goroutine: its pc and the index of the next component
    worker,         \* per worker: pc and the job / result it holds
    wg,             \* sync.WaitGroup counter
    closer,         \* the goroutine that closes results after wg.Wait()
    main,           \* the calling goroutine of Calculate
    componentToLag, \* the map built by the collecting loop
    errorCount,
    returned,       \* what Calculate returned: "pending", "error" or "map"
    jobOutcome,     \* per component index: "none", or how its calculateComponentLag ended
    jobLag,         \* per component index: the lag its calculateComponentLag returned
    \* ---- sbom graph queries ----
    targetRef,      \* the reference handed to GetDependencyPath
    directDeps,     \* what GetDirectDeps returned
    componentPath,  \* what GetDependencyPath returned
    \* ---- CreateResult ----
    componentMetrics, \* map[cdx.Component]TechnicalLag handed to CreateResult
    lagResult,      \* the Result under construction: the four TechLagStats buckets
    createResult,   \* position of CreateResult: its pc, the map keys its range loop has
                    \* still to visit, the index of the next direct dependency
    hotPathAnalysis \* CreateHotPathAnalysis on lagResult: its pc, the next scope, and
                    \* the HotPath lists built so far

semverVars == <<usedVersion, versions, distance, libyear, addedAt, oldDistance, oldLibyear>>
calcVars == <<bom, configured, maxWorkers, cancelled, jobs, jobsClosed, results, resultsClosed,
              producer, worker, wg, closer, main, componentToLag, errorCount, returned,
              jobOutcome, jobLag>>
graphVars == <<targetRef, directDeps, componentPath>>
aggVars == <<componentMetrics, lagResult, createResult, hotPathAnalysis>>
vars == <<semverVars, calcVars, graphVars, aggVars>>

(***************************************************************************)
(* Bounds                                                                  *)
(***************************************************************************)
MaxVersions == 3
NumComponents == 2
NumRefs == 3
MaxWorkers == 2

(***************************************************************************)
(* go-version: parsing and comparison as used by semver.go                 *)
(***************************************************************************)
Max(a, b) == IF a >= b THEN a ELSE b

\* A parsed *version.Version: numeric segments (at least three) and the pre-release tag.
Parsed(segs, pre) == [ok |-> TRUE, segments |-> segs, prerelease |-> pre]
Unparsable == [ok |-> FALSE, segments |-> <<>>, prerelease |-> ""]

\* version.NewVersion on the version strings of the model: fewer than three
\* numeric segments are padded with zeros, more than three are kept, a
\* "-tag" suffix is the pre-release tag, anything else does not parse.
NewVersion(raw) ==
    CASE raw = "0.1.0"      -> Parsed(<<0, 1, 0>>, "")
      [] raw = "0.2.0"      -> Parsed(<<0, 2, 0>>, "")
      [] raw = "0.9.0"      -> Parsed(<<0, 9, 0>>, "")
      [] raw = "1.0.0"      -> Parsed(<<1, 0, 0>>, "")
      [] raw = "1.0"        -> Parsed(<<1, 0, 0>>, "")
      [] raw = "1.0.0.1"    -> Parsed(<<1, 0, 0, 1>>, "")
      [] raw = "1.0.1"      -> Parsed(<<1, 0, 1>>, "")
      [] raw = "1.1.0"      -> Parsed(<<1, 1, 0>>, "")
      [] raw = "1.1.0-beta" -> Parsed(<<1, 1, 0>>, "beta")
      [] raw = "1.2.0"      -> Parsed(<<1, 2, 0>>, "")
      [] raw = "1.2.3"      -> Parsed(<<1, 2, 3>>, "")
      [] raw = "2.0.0"      -> Parsed(<<2, 0, 0>>, "")
      [] raw = "2.0.3"      -> Parsed(<<2, 0, 3>>, "")
      [] raw = "2.1.0"      -> Parsed(<<2, 1, 0>>, "")
      [] OTHER              -> Unparsable

\* parseSemver: the empty string and unparsable strings are errors.
parseSemver(rawVersion) ==
    IF rawVersion = "" THEN [err |-> "ErrEmptyVersion", v |-> Unparsable]
    ELSE LET v == NewVersion(rawVersion) IN
         IF ~v.ok THEN [err |-> "parse", v |-> Unparsable]
         ELSE [err |-> "", v |-> v]

AllZero(segs, from) == \A i \in from..Len(segs) : segs[i] = 0

\* The jagged segment comparison of Version.Compare, from position i on.
RECURSIVE CompareSegments(_, _, _)
CompareSegments(a, b, i) ==
    IF i > Max(Len(a), Len(b)) THEN 0
    ELSE IF i > Len(a) THEN (IF AllZero(b, i) THEN 0 ELSE -1)
    ELSE IF i > Len(b) THEN (IF AllZero(a, i) THEN 0 ELSE 1)
    ELSE IF a[i] = b[i] THEN CompareSegments(a, b, i + 1)
    ELSE IF a[i] < b[i] THEN -1 ELSE 1

\* Version.Compare: identical segments are decided by the pre-release tag
\* (a release is greater than its pre-releases), different segments by the
\* numeric comparison alone.
Compare(v, o) ==
    IF v.segments = o.segments
    THEN IF v.prerelease = o.prerelease THEN 0
         ELSE IF v.prerelease = "" THEN 1
         ELSE IF o.prerelease = "" THEN -1
         ELSE 0
    ELSE CompareSegments(v.segments, o.segments, 1)

Equal(v, o) == Compare(v, o) = 0
GreaterThanOrEqual(v, o) == Compare(v, o) >= 0

(***************************************************************************)
(* slices.SortFunc on the short slices of the model is an insertion sort:  *)
(* an element moves left while it compares strictly less than its          *)
(* predecessor, so equal elements keep their input order.                  *)
(***************************************************************************)
RECURSIVE InsertVersion(_, _)
InsertVersion(sorted, x) ==
    IF sorted = <<>> THEN <<x>>
    ELSE IF Compare(x, sorted[Len(sorted)]) < 0
         THEN Append(InsertVersion(SubSeq(sorted, 1, Len(sorted) - 1), x), sorted[Len(sorted)])
         ELSE Append(sorted, x)

RECURSIVE SortVersions(_)
SortVersions(s) ==
    IF s = <<>> THEN <<>>
    ELSE InsertVersion(SortVersions(SubSeq(s, 1, Len(s) - 1)), s[Len(s)])

\* parseSemver applied to every string of the slice, in order.
RECURSIVE ParseAll(_)
ParseAll(raws) ==
    IF raws = <<>> THEN <<>>
    ELSE <<parseSemver(raws[1])>> \o ParseAll(Tail(raws))

RECURSIVE ValuesOf(_)
ValuesOf(parsed) ==
    IF parsed = <<>> THEN <<>>
    ELSE <<parsed[1].v>> \o ValuesOf(Tail(parsed))

IsStableRelease(p) == p.err = "" /\ p.v.prerelease = ""

\* parseAndFilterVersions: drop unparsable and pre-release strings, sort ascending.
parseAndFilterVersions(raws) ==
    IF Len(raws) = 0 THEN [err |-> "ErrNoVersionsProvided", semVers |-> <<>>]
    ELSE LET semVers == ValuesOf(SelectSeq(ParseAll(raws), IsStableRelease)) IN
         IF Len(semVers) = 0 THEN [err |-> "ErrNoValidVersions", semVers |-> <<>>]
         ELSE [err |-> "", semVers |-> SortVersions(semVers)]

\* sort.Search(n, f): binary search for the smallest 0-based index in [lo, hi) at which
\* sortedVersions[i] >= usedVersion.
RECURSIVE Search(_, _, _, _)
Search(sortedVersions, usedSemver, lo, hi) ==
    IF lo >= hi THEN lo
    ELSE LET h == (lo + hi) \div 2 IN
         IF ~GreaterThanOrEqual(sortedVersions[h + 1], usedSemver)
         THEN Search(sortedVersions, usedSemver, h + 1, hi)
         ELSE Search(sortedVersions, usedSemver, lo, h)

\* findVersionIndex (0-based, as in the source).
findVersionIndex(sortedVersions, usedSemver) ==
    Search(sortedVersions, usedSemver, 0, Len(sortedVersions))

InsertAt(s, index, x) == SubSeq(s, 1, index) \o <<x>> \o SubSeq(s, index + 1, Len(s))

\* A plausible slip: the used version is inserted even when it is already present.
insertVersionAlways(sortedVersions, usedSemver, index) ==
    InsertAt(sortedVersions, index, usedSemver)

\* insertVersionIfMissing: the slice after the call (the index is returned unchanged).
insertVersionIfMissing(sortedVersions, usedSemver, index) ==
    IF index = Len(sortedVersions) THEN Append(sortedVersions, usedSemver)
    ELSE IF ~Equal(sortedVersions[index + 1], usedSemver)
         THEN InsertAt(sortedVersions, index, usedSemver)
         ELSE sortedVersions

\* normalizeSegments: exactly major, minor, patch.
normalizeSegments(segments) ==
    [i \in 1..3 |-> IF i <= Len(segments) THEN segments[i] ELSE 0]

Counts(ma, mi, pa) == [major |-> ma, minor |-> mi, patch |-> pa]

\* A plausible slip: independent tests instead of a switch, so that a release
\* that raises several segments is counted several times.
releaseTypeNoSwitch(currentSegments, prevSegments) ==
    Counts(IF currentSegments[1] > prevSegments[1] THEN 1 ELSE 0,
           IF currentSegments[2] > prevSegments[2] THEN 1 ELSE 0,
           IF currentSegments[3] > prevSegments[3] THEN 1 ELSE 0)

\* The switch of calculateVersionDistance: which counter one missed release raises.
releaseType(currentSegments, prevSegments) ==
    IF currentSegments[1] > prevSegments[1] THEN Counts(1, 0, 0)
    ELSE IF currentSegments[2] > prevSegments[2] THEN Counts(0, 1, 0)
    ELSE IF currentSegments[3] > prevSegments[3] THEN Counts(0, 0, 1)
    ELSE Counts(0, 0, 1)

\* A plausible slip: every missed release is compared with the used version.
prevSegmentsAlwaysUsed(sortedVersions, usedIndex, usedSemver, i) ==
    normalizeSegments(usedSemver.segments)

\* The segments the release at 0-based index i is compared with.
prevSegmentsOf(sortedVersions, usedIndex, usedSemver, i) ==
    IF i = usedIndex + 1 THEN normalizeSegments(usedSemver.segments)
    ELSE normalizeSegments(sortedVersions[i].segments)

\* The counting loop of calculateVersionDistance, from 0-based index i to the end.
RECURSIVE CountMissed(_, _, _, _)
CountMissed(sortedVersions, usedIndex, usedSemver, i) ==
    IF i >= Len(sortedVersions) THEN Counts(0, 0, 0)
    ELSE LET t == releaseType(normalizeSegments(sortedVersions[i + 1].segments),
                              prevSegmentsOf(sortedVersions, usedIndex, usedSemver, i))
             rest == CountMissed(sortedVersions, usedIndex, usedSemver, i + 1)
         IN Counts(t.major + rest.major, t.minor + rest.minor, t.patch + rest.patch)

VersionDistance(err, releases, ma, mi, pa) ==
    [err |-> err, MissedReleases |-> releases, MissedMajor |-> ma,
     MissedMinor |-> mi, MissedPatch |-> pa]

\* A plausible slip: the used version itself is counted as a missed release.
missedReleasesOffByOne(sortedVersions, usedIndex) == Len(sortedVersions) - usedIndex

missedReleasesOf(sortedVersions, usedIndex) == Len(sortedVersions) - 1 - usedIndex

calculateVersionDistance(sortedVersions, usedIndex, usedSemver) ==
    LET missedReleases == missedReleasesOf(sortedVersions, usedIndex) IN
    IF missedReleases <= 0 THEN VersionDistance("", 0, 0, 0, 0)
    ELSE LET c == CountMissed(sortedVersions, usedIndex, usedSemver, usedIndex + 1)
             sum == c.major + c.minor + c.patch
         IN IF sum # missedReleases
            THEN VersionDistance("", missedReleases, c.major, c.minor,
                                 Max(missedReleases - c.major - c.minor, 0))
            ELSE VersionDistance("", missedReleases, c.major, c.minor, c.patch)

GetVersionDistance(used, raws) ==
    IF Len(raws) = 0 THEN VersionDistance("ErrNoVersionsProvided", 0, 0, 0, 0)
    ELSE LET u == parseSemver(used) IN
         IF u.err # "" THEN VersionDistance("invalid used version", 0, 0, 0, 0)
         ELSE LET f == parseAndFilterVersions(raws) IN
              IF f.err # "" THEN VersionDistance(f.err, 0, 0, 0, 0)
              ELSE LET usedIndex == findVersionIndex(f.semVers, u.v)
                       sorted == insertVersionIfMissing(f.semVers, u.v, usedIndex)
                   IN calculateVersionDistance(sorted, usedIndex, u.v)

(***************************************************************************)
(* deps.Version and GetLibyear                                             *)
(***************************************************************************)
Version(v, publishedAt) == [Version |-> v, PublishedAt |-> publishedAt]

\* time.Parse(time.RFC3339, s) on the timestamps of the model, as a number of
\* years since 2020; any other text does not parse.
ParseRFC3339(s) ==
    CASE s = "2021-01-01T00:00:00Z" -> [ok |-> TRUE, at |-> 1]
      [] s = "2022-01-01T00:00:00Z" -> [ok |-> TRUE, at |-> 2]
      [] s = "2023-01-01T00:00:00Z" -> [ok |-> TRUE, at |-> 3]
      [] s = "2024-01-01T00:00:00Z" -> [ok |-> TRUE, at |-> 4]
      [] OTHER                      -> [ok |-> FALSE, at |-> 0]

\* Version.Time: an empty publication date is an error, otherwise time.Parse decides.
Time(v) ==
    IF v.PublishedAt = "" THEN [ok |-> FALSE, at |-> 0]
    ELSE ParseRFC3339(v.PublishedAt)

\* A plausible slip: pre-release versions are not skipped.
keepsVersionWithPrerelease(v) ==
    /\ v.PublishedAt # ""
    /\ Time(v).ok
    /\ parseSemver(v.Version).err = ""

\* The four tests of the loop of filterValidVersions.
keepsVersion(v) ==
    /\ v.PublishedAt # ""
    /\ Time(v).ok
    /\ parseSemver(v.Version).err = ""
    /\ parseSemver(v.Version).v.prerelease = ""

filterValidVersions(vs) ==
    IF Len(vs) = 0 THEN [err |-> "ErrNoVersionsProvided", valid |-> <<>>]
    ELSE LET valid == SelectSeq(vs, keepsVersion) IN
         IF Len(valid) = 0 THEN [err |-> "ErrNoValidVersions", valid |-> <<>>]
         ELSE [err |-> "", valid |-> valid]

\* The comparison function of sortVersionsBySemanticVersion.
CompareBySemver(a, b) ==
    LET pa == parseSemver(a.Version)
        pb == parseSemver(b.Version)
    IN IF pa.err # "" /\ pb.err # "" THEN 0
       ELSE IF pa.err # "" THEN 1
       ELSE IF pb.err # "" THEN -1
       ELSE Compare(pa.v, pb.v)

RECURSIVE InsertBySemver(_, _)
InsertBySemver(sorted, x) ==
    IF sorted = <<>> THEN <<x>>
    ELSE IF CompareBySemver(x, sorted[Len(sorted)]) < 0
         THEN Append(InsertBySemver(SubSeq(sorted, 1, Len(sorted) - 1), x), sorted[Len(sorted)])
         ELSE Append(sorted, x)

\* A plausible slip: the filtered versions are left in registry order.
sortVersionsNot(vs) == vs

RECURSIVE sortVersionsBySemanticVersion(_)
sortVersionsBySemanticVersion(vs) ==
    IF vs = <<>> THEN <<>>
    ELSE InsertBySemver(sortVersionsBySemanticVersion(SubSeq(vs, 1, Len(vs) - 1)), vs[Len(vs)])

\* slices.IndexFunc: the first 0-based index from i on whose version equals the used
\* one, or -1.
RECURSIVE IndexOfUsed(_, _, _)
IndexOfUsed(sortedVersions, usedSemver, i) ==
    IF i >= Len(sortedVersions) THEN -1
    ELSE LET sv == parseSemver(sortedVersions[i + 1].Version) IN
         IF sv.err = "" /\ Equal(sv.v, usedSemver) THEN i
         ELSE IndexOfUsed(sortedVersions, usedSemver, i + 1)

\* A plausible slip: a used version that is not found resolves to the first element.
findUsedVersionIndexOrFirst(sortedVersions, usedSemver) ==
    Max(IndexOfUsed(sortedVersions, usedSemver, 0), 0)

\* findUsedVersionIndex: -1 stands for ErrVersionNotFound.
findUsedVersionIndex(sortedVersions, usedSemver) ==
    IndexOfUsed(sortedVersions, usedSemver, 0)

Libyear(err, duration) == [err |-> err, duration |-> duration]

GetLibyear(used, vs) ==
    IF Len(vs) = 0 THEN Libyear("ErrNoVersionsProvided", 0)
    ELSE LET u == parseSemver(used) IN
         IF u.err # "" THEN Libyear("invalid used version", 0)
         ELSE LET f == filterValidVersions(vs) IN
              IF f.err # "" THEN Libyear(f.err, 0)
              ELSE LET validVersions == sortVersionsBySemanticVersion(f.valid)
                       usedIdx == findUsedVersionIndex(validVersions, u.v)
                   IN IF usedIdx = -1 THEN Libyear("ErrVersionNotFound", 0)
                      ELSE LET usedTime == Time(validVersions[usedIdx + 1])
                               newestTime == Time(validVersions[Len(validVersions)])
                           IN IF ~usedTime.ok THEN Libyear("used time", 0)
                              ELSE IF ~newestTime.ok THEN Libyear("newest time", 0)
                              ELSE LET duration == newestTime.at - usedTime.at IN
                                   IF duration < 0 THEN Libyear("", 0)
                                   ELSE Libyear("", duration)

\* The loop of calculateComponentLag that turns the registry response into the raw
\* version strings handed to GetVersionDistance.
RECURSIVE rawVersionsOf(_)
rawVersionsOf(vs) ==
    IF vs = <<>> THEN <<>>
    ELSE <<vs[1].Version>> \o rawVersionsOf(Tail(vs))

(***************************************************************************)
(* The semver harness: a used version and a version history are drawn, the *)
(* two metrics are called on them, and one more candidate may be added to  *)
(* the history, after which the metrics are called again.                  *)
(***************************************************************************)
Y2021 == "2021-01-01T00:00:00Z"
Y2022 == "2022-01-01T00:00:00Z"
Y2023 == "2023-01-01T00:00:00Z"

\* The registry entries histories are built from: releases with several dates, two
\* spellings of one version, a four-segment version, a pre-release, an
\* unparsable version, a missing and an invalid publication date.
KnownReleases ==
    { Version("1.0.0", Y2021), Version("1.0", Y2023), Version("1.0.0.1", Y2022),
      Version("1.0.1", Y2023), Version("2.0.0", Y2022), Version("2.1.0", Y2021),
      Version("2.0.0", ""), Version("2.0.0", "yesterday"),
      Version("1.1.0-beta", Y2023), Version("invalid.version", Y2023) }

UsedVersions == {"1.0.0", "1.0.1", "1.1.0-beta", "invalid.version", ""}

RECURSIVE Published(_, _)
Published(raws, at) ==
    IF raws = <<>> THEN <<>>
    ELSE <<Version(raws[1], at)>> \o Published(Tail(raws), at)

\* TestVersionDistanceValidUsedVersionNotContained and TestVersionDistanceValidUsedVersion.
ExampleNotContained == <<"1.0.1", "0.1.0", "0.2.0", "2.0.3", "1.2.0", "1.2.3">>
ExampleContained == <<"0.1.0", "1.0.0", "0.2.0", "1.0.1", "1.2.0", "1.2.3", "2.0.3">>

Histories ==
    UNION {[1..n -> KnownReleases] : n \in 0..MaxVersions}
    \cup {Published(ExampleNotContained, Y2021), Published(ExampleContained, Y2021)}

NotConfigured == [entry |-> "", maxWorkers |-> 0]

NotCalledDistance == VersionDistance("not called", 0, 0, 0, 0)
NotCalledLibyear == Libyear("not called", 0)

InitCalcIdle ==
    /\ bom = [hasComponents |-> FALSE, components |-> <<>>]
    /\ configured = NotConfigured
    /\ maxWorkers = 0
    /\ cancelled = FALSE
    /\ jobs = <<>>
    /\ jobsClosed = FALSE
    /\ results = <<>>
    /\ resultsClosed = FALSE
    /\ producer = [pc |-> "idle", next |-> 1]
    /\ worker = <<>>
    /\ wg = 0
    /\ closer = "idle"
    /\ main = "idle"
    /\ componentToLag = <<>>
    /\ errorCount = 0
    /\ returned = "pending"
    /\ jobOutcome = <<>>
    /\ jobLag = <<>>

NotCalledDeps == [err |-> "not called", deps |-> <<>>]
NotCalledPath == [err |-> "not called", isNil |-> TRUE, path |-> <<>>]

InitGraphIdle ==
    /\ targetRef = ""
    /\ directDeps = NotCalledDeps
    /\ componentPath = NotCalledPath

NotAnalyzed == [pc |-> "idle", next |-> 1, libyearsHotPaths |-> <<>>,
                versionDistanceHotPaths |-> <<>>]

InitAggIdle ==
    /\ componentMetrics = <<>>
    /\ lagResult = <<>>
    /\ createResult = [pc |-> "idle", remaining |-> {}, next |-> 1]
    /\ hotPathAnalysis = NotAnalyzed

InitSemver ==
    /\ usedVersion \in UsedVersions
    /\ versions \in Histories
    /\ distance = NotCalledDistance
    /\ libyear = NotCalledLibyear
    /\ addedAt = 0
    /\ oldDistance = NotCalledDistance
    /\ oldLibyear = NotCalledLibyear
    /\ InitCalcIdle
    /\ InitGraphIdle
    /\ InitAggIdle

CallGetVersionDistance ==
    /\ distance = NotCalledDistance
    /\ distance' = GetVersionDistance(usedVersion, rawVersionsOf(versions))
    /\ UNCHANGED <<usedVersion, versions, libyear, addedAt, oldDistance, oldLibyear>>
    /\ UNCHANGED <<calcVars, graphVars, aggVars>>

CallGetLibyear ==
    /\ libyear = NotCalledLibyear
    /\ libyear' = GetLibyear(usedVersion, versions)
    /\ UNCHANGED <<usedVersion, versions, distance, addedAt, oldDistance, oldLibyear>>
    /\ UNCHANGED <<calcVars, graphVars, aggVars>>

\* The registry knows one more candidate: it is put at any position of the history,
\* the results so far are kept for comparison and both metrics are due again.
AddVersion ==
    /\ addedAt = 0
    /\ distance # NotCalledDistance
    /\ libyear # NotCalledLibyear
    /\ Len(versions) < MaxVersions
    /\ \E c \in KnownReleases, i \in 0..Len(versions) :
          /\ versions' = InsertAt(versions, i, c)
          /\ addedAt' = i + 1
    /\ oldDistance' = distance
    /\ oldLibyear' = libyear
    /\ distance' = NotCalledDistance
    /\ libyear' = NotCalledLibyear
    /\ UNCHANGED usedVersion
    /\ UNCHANGED <<calcVars, graphVars, aggVars>>

NextSemver == CallGetVersionDistance \/ CallGetLibyear \/ AddVersion

SpecSemver == InitSemver /\ [][NextSemver]_vars

(***************************************************************************)
(* Properties of the semver engine (SpecSemver)                            *)
(***************************************************************************)
UsedSemver == parseSemver(usedVersion).v
Candidate(i) == parseSemver(versions[i].Version).v

\* Positions of the candidates that parse and carry no pre-release tag.
StablePositions ==
    {i \in 1..Len(versions) : IsStableRelease(parseSemver(versions[i].Version))}

\* Positions of the candidates that also have a valid publication date.
DatedPositions == {i \in StablePositions : Time(versions[i]).ok}

ContainsUsedVerbatim == \E i \in 1..Len(versions) : versions[i].Version = usedVersion

\* C1: whenever GetVersionDistance returns a result, MissedMajor + MissedMinor +
\* MissedPatch = MissedReleases and none of the four counts is negative.
C1_SumInvariant ==
    distance.err = "" =>
        /\ distance.MissedMajor + distance.MissedMinor + distance.MissedPatch
               = distance.MissedReleases
        /\ distance.MissedReleases >= 0
        /\ distance.MissedMajor >= 0
        /\ distance.MissedMinor >= 0
        /\ distance.MissedPatch >= 0

C1_Witness ==
    /\ distance.err = ""
    /\ distance.MissedMajor >= 1
    /\ distance.MissedMinor >= 1
    /\ distance.MissedPatch >= 1

\* C2 as stated: a non-empty candidate set that contains the used version verbatim
\* has release distance 0/0/0/0.
C2_ContainedMeansZero ==
    (distance.err = "" /\ Len(versions) > 0 /\ ContainsUsedVerbatim) =>
        distance = VersionDistance("", 0, 0, 0, 0)

\* C2 amended: a candidate set that contains the used version verbatim and in which
\* no other surviving candidate is greater than or equal to the used version has
\* release distance 0/0/0/0.
C2_NewestContainedMeansZero ==
    (/\ distance.err = ""
     /\ ContainsUsedVerbatim
     /\ Cardinality({i \in StablePositions : Compare(Candidate(i), UsedSemver) >= 0}) <= 1
     /\ \A i \in StablePositions :
           Compare(Candidate(i), UsedSemver) >= 0 => versions[i].Version = usedVersion)
    => distance = VersionDistance("", 0, 0, 0, 0)

C2_Witness ==
    /\ distance.err = ""
    /\ ContainsUsedVerbatim
    /\ Cardinality({i \in StablePositions : Compare(Candidate(i), UsedSemver) >= 0}) = 1
    /\ \E i \in StablePositions : Compare(Candidate(i), UsedSemver) < 0
    /\ distance.MissedReleases = 0
    /\ addedAt = 0

\* The number of surviving candidates behind the position the used version resolves
\* to: those that are >= the used version, less the one it is resolved to when an
\* equal one exists.
ElementsAfterUsed ==
    Cardinality({i \in StablePositions : Compare(Candidate(i), UsedSemver) >= 0})
    - (IF \E i \in StablePositions : Compare(Candidate(i), UsedSemver) = 0 THEN 1 ELSE 0)

IsExample ==
    /\ usedVersion = "1.0.0"
    /\ rawVersionsOf(versions) \in {ExampleNotContained, ExampleContained}

\* C3: MissedReleases is the number of elements behind the first element >= the used
\* version in the ascending filtered candidates (the used version is inserted there,
\* uncounted, when no equal element exists); the example yields 4 with and without
\* 1.0.0 in the list.
C3_MissedReleasesAfterPosition ==
    /\ distance.err = "" => distance.MissedReleases = ElementsAfterUsed
    /\ (IsExample /\ distance # NotCalledDistance) =>
           (distance.err = "" /\ distance.MissedReleases = 4)

C3_Witness ==
    /\ usedVersion = "1.0.0"
    /\ rawVersionsOf(versions) = ExampleContained
    /\ distance.err = ""
    /\ distance.MissedReleases = 4

\* The ascending filtered candidates with the used version in place.
SortedWithUsed ==
    LET f == parseAndFilterVersions(rawVersionsOf(versions)) IN
    insertVersionIfMissing(f.semVers, UsedSemver, findVersionIndex(f.semVers, UsedSemver))

\* The 1-based position of the used version in it.
UsedPosition ==
    findVersionIndex(parseAndFilterVersions(rawVersionsOf(versions)).semVers, UsedSemver) + 1

\* The element before position i of sorted: the used version for the first missed release.
Predecessor(sorted, used, i) == IF i = used + 1 THEN UsedSemver ELSE sorted[i - 1]

MajorPositions(sorted, used) ==
    {i \in (used + 1)..Len(sorted) :
        sorted[i].segments[1] > Predecessor(sorted, used, i).segments[1]}

MinorPositions(sorted, used) ==
    {i \in (used + 1)..Len(sorted) :
        /\ ~(sorted[i].segments[1] > Predecessor(sorted, used, i).segments[1])
        /\ sorted[i].segments[2] > Predecessor(sorted, used, i).segments[2]}

\* C4: a missed release is major if its major segment is above that of the element
\* before it, otherwise minor if its minor segment is, otherwise patch; the example
\* yields 1 major, 1 minor, 2 patch.
C4_ClassifiedByPredecessor ==
    /\ distance.err = "" =>
          LET sorted == SortedWithUsed
              used == UsedPosition
              major == Cardinality(MajorPositions(sorted, used))
              minor == Cardinality(MinorPositions(sorted, used))
          IN /\ distance.MissedMajor = major
             /\ distance.MissedMinor = minor
             /\ distance.MissedPatch = Len(sorted) - used - major - minor
    /\ (IsExample /\ distance # NotCalledDistance) =>
          distance = VersionDistance("", 4, 1, 1, 2)

\* A release that raises no segment (a second spelling, a fourth segment) follows a
\* minor release that is compared with a patch release, not with the used version.
C4_Witness ==
    /\ usedVersion = "1.0.0"
    /\ rawVersionsOf(versions) = ExampleNotContained
    /\ distance = VersionDistance("", 4, 1, 1, 2)

At(i) == Time(versions[i]).at

\* n is a surviving candidate of the highest version, u one equal to the used version.
IsNewest(n) == \A j \in DatedPositions : Compare(Candidate(n), Candidate(j)) >= 0
IsUsed(u) == Equal(Candidate(u), UsedSemver)

\* C5 as stated: the duration is the maximum publish time over the filtered
\* candidates minus the publish time of the used version, zero instead of negative.
C5_MaxPublishTime ==
    libyear.err = "" =>
        \E u \in DatedPositions, m \in DatedPositions :
            /\ IsUsed(u)
            /\ \A j \in DatedPositions : At(m) >= At(j)
            /\ libyear.duration = Max(At(m) - At(u), 0)

\* C5 amended: the duration is the publish time of a surviving candidate of the
\* highest version minus the publish time of a surviving candidate equal to the used
\* version, zero instead of negative.
C5_NewestVersionTime ==
    libyear.err = "" =>
        \E u \in DatedPositions, n \in DatedPositions :
            /\ IsUsed(u)
            /\ IsNewest(n)
            /\ libyear.duration = Max(At(n) - At(u), 0)

\* The newest version was published before an older one, and the used version lags.
C5_Witness ==
    /\ libyear.err = ""
    /\ libyear.duration > 0
    /\ addedAt = 0
    /\ \E n \in DatedPositions, m \in DatedPositions :
          IsNewest(n) /\ ~IsNewest(m) /\ At(m) > At(n)

SamePositionsBefore == (1..Len(versions)) \ {addedAt}

\* C6: adding one candidate published later than every candidate so far never
\* decreases the result of GetLibyear.
C6_LaterCandidateNeverDecreases ==
    (/\ addedAt # 0
     /\ libyear.err = ""
     /\ oldLibyear.err = ""
     /\ Time(versions[addedAt]).ok
     /\ \A i \in SamePositionsBefore : Time(versions[i]).ok => At(addedAt) > At(i))
    => libyear.duration >= oldLibyear.duration

ExcludedFromBoth(v) == ~IsStableRelease(parseSemver(v.Version))
ExcludedFromTime(v) == ExcludedFromBoth(v) \/ ~Time(v).ok

\* Two results of one metric agree: both fail, or both succeed with the same value.
SameMetric(a, b) == IF a.err = "" THEN a = b ELSE b.err # ""

\* C7: adding a candidate that does not parse or carries a pre-release tag leaves
\* the result of GetVersionDistance and of GetLibyear unchanged, and so does adding a
\* candidate without valid publish timestamp for GetLibyear.
C7_ExcludedCandidatesIgnored ==
    addedAt # 0 =>
        /\ (ExcludedFromBoth(versions[addedAt]) /\ distance # NotCalledDistance)
               => SameMetric(distance, oldDistance)
        /\ (ExcludedFromTime(versions[addedAt]) /\ libyear # NotCalledLibyear)
               => SameMetric(libyear, oldLibyear)

C7_Witness ==
    /\ addedAt # 0
    /\ versions[addedAt].Version = "1.1.0-beta"
    /\ distance.err = ""
    /\ distance.MissedReleases >= 1
    /\ libyear.err = ""
    /\ libyear.duration > 0

\* C8: GetLibyear fails exactly when the list is empty, the used version does not
\* parse, no candidate survives filtering, or no surviving candidate equals the used
\* version.
C8_LibyearErrorsExactly ==
    libyear # NotCalledLibyear =>
        (libyear.err # "" <=>
            \/ Len(versions) = 0
            \/ parseSemver(usedVersion).err # ""
            \/ DatedPositions = {}
            \/ ~\E i \in DatedPositions : IsUsed(i))

\* Candidates survive, some newer than the used version, but none equals it.
C8_Witness ==
    /\ libyear.err = "ErrVersionNotFound"
    /\ parseSemver(usedVersion).err = ""
    /\ \E i \in DatedPositions : Compare(Candidate(i), UsedSemver) > 0
    /\ \E i \in DatedPositions : Compare(Candidate(i), UsedSemver) < 0

(***************************************************************************)
(* Calculator.calculateComponentLag                                        *)
(***************************************************************************)
Component(name, purl, version) == [Name |-> name, PackageURL |-> purl, Version |-> version]

\* One entry of deps.APIResponse.Versions: the version key and the outer date.
VersionsAPIResponse(v, keyDate, outerDate) ==
    [Version |-> Version(v, keyDate), PublishedAt |-> outerDate]

\* What depsClient.GetVersions can come back with: a failure (network, rate limit,
\* not found, cancelled context), an empty response, a history with the used
\* version 1.0.0 and a newer release, or a history without the used version.
RegistryError == [err |-> "registry", Versions |-> <<>>]
Response(vs) == [err |-> "", Versions |-> vs]

RegistryAnswers ==
    { RegistryError,
      Response(<<>>),
      Response(<<VersionsAPIResponse("1.0.0", Y2021, ""),
                 VersionsAPIResponse("2.0.0", "", Y2022)>>),
      Response(<<VersionsAPIResponse("2.0.0", Y2022, "")>>) }

\* The conversion loop of calculateComponentLag: a missing date of the version key
\* is taken from the outer structure.
RECURSIVE toVersions(_)
toVersions(apiVersions) ==
    IF apiVersions = <<>> THEN <<>>
    ELSE LET v == apiVersions[1]
             version == IF v.Version.PublishedAt = "" /\ v.PublishedAt # ""
                        THEN Version(v.Version.Version, v.PublishedAt)
                        ELSE v.Version
         IN <<version>> \o toVersions(Tail(apiVersions))

TechnicalLag(libdays, d) ==
    [Libdays |-> libdays, MissedReleases |-> d.MissedReleases,
     MissedMajor |-> d.MissedMajor, MissedMinor |-> d.MissedMinor,
     MissedPatch |-> d.MissedPatch]

NoLag == TechnicalLag(0, VersionDistance("", 0, 0, 0, 0))

LagError(e) == [err |-> e, lag |-> NoLag]

\* calculateComponentLag for a component and the answer of the registry; Libdays
\* counts a year of the model as 365 days.
calculateComponentLag(component, answer) ==
    IF component.PackageURL = "" THEN LagError("no package URL")
    ELSE IF component.Version = "" THEN LagError("no version")
    ELSE IF answer.err # "" THEN LagError("failed to get versions")
    ELSE IF Len(answer.Versions) = 0 THEN LagError("no versions found")
    ELSE LET vs == toVersions(answer.Versions)
             libduration == GetLibyear(component.Version, vs)
         IN IF libduration.err # "" THEN LagError("failed to calculate libyear")
            ELSE LET versionDistance == GetVersionDistance(component.Version, rawVersionsOf(vs))
                 IN IF versionDistance.err # ""
                    THEN LagError("failed to calculate version distance")
                    ELSE [err |-> "", lag |-> TechnicalLag(libduration.duration * 365,
                                                           versionDistance)]

(***************************************************************************)
(* Calculator.Calculate: the main flow, the job producer, the worker pool  *)
(* and the goroutine that closes the result channel.                       *)
(***************************************************************************)
ComponentValues ==
    { Component("a", "pkg:npm/a@1.0.0", "1.0.0"),
      Component("b", "pkg:npm/b@2.0.0", "2.0.0"),
      Component("nopurl", "", "1.0.0"),
      Component("noversion", "pkg:npm/c", "") }

\* bom.Components is nil, or a slice of at most NumComponents components.
Manifests ==
    {[hasComponents |-> FALSE, components |-> <<>>]}
    \cup {[hasComponents |-> TRUE, components |-> cs] :
             cs \in UNION {[1..n -> ComponentValues] : n \in 0..NumComponents}}

components == bom.components

\* A plausible slip: the channels are made with room for one element only.
CapacityOfOne == IF Len(components) > 1 THEN 1 ELSE Len(components)

\* cap(jobs) and cap(results): make(chan ..., len(components)).
Capacity == Len(components)

Idle == [pc |-> "select", job |-> 0, result |-> LagError("")]

componentResult(index, r) ==
    [component |-> components[index], lag |-> r.lag, index |-> index, err |-> r.err]

InitSemverIdle ==
    /\ usedVersion = ""
    /\ versions = <<>>
    /\ distance = NotCalledDistance
    /\ libyear = NotCalledLibyear
    /\ addedAt = 0
    /\ oldDistance = NotCalledDistance
    /\ oldLibyear = NotCalledLibyear

\* The number of workers NewCalculator falls back to.
DefaultMaxWorkers == 10

\* NewCalculator(logger, maxWorkers): the maxWorkers of the Calculator it returns.
NewCalculator(n) == IF n <= 0 THEN DefaultMaxWorkers ELSE n

\* How a Calculator is made: by NewCalculator asked for n workers, or by the
\* package-level Calculate for itself, NewCalculator(slog.Default(), 10).
MadeByNewCalculator(sizes) == {[entry |-> "NewCalculator", maxWorkers |-> n] : n \in sizes}
MadeByCalculate == [entry |-> "Calculate", maxWorkers |-> 10]

\* Calculate is called on a manifest with a Calculator made in one of the given ways.
InitCalculateWith(calculators, manifests) ==
    /\ bom \in manifests
    /\ configured \in calculators
    /\ maxWorkers = NewCalculator(configured.maxWorkers)
    /\ cancelled = FALSE
    /\ jobs = <<>>
    /\ jobsClosed = FALSE
    /\ results = <<>>
    /\ resultsClosed = FALSE
    /\ producer = [pc |-> "idle", next |-> 1]
    /\ worker = <<>>
    /\ wg = 0
    /\ closer = "idle"
    /\ main = "start"
    /\ componentToLag = <<>>
    /\ errorCount = 0
    /\ returned = "pending"
    /\ jobOutcome = [i \in 1..Len(bom.components) |-> "none"]
    /\ jobLag = [i \in 1..Len(bom.components) |-> NoLag]
    /\ InitSemverIdle
    /\ InitGraphIdle
    /\ InitAggIdle

InitCalculate ==
    InitCalculateWith(MadeByNewCalculator(1..MaxWorkers), Manifests)

\* A plausible slip: one worker is started per component.
MainStartWorkerPerComponent ==
    /\ main = "start"
    /\ IF ~bom.hasComponents
       THEN /\ returned' = "error"
            /\ main' = "done"
            /\ UNCHANGED <<worker, wg, producer, closer>>
       ELSE IF Len(components) = 0
       THEN /\ returned' = "map"
            /\ main' = "done"
            /\ UNCHANGED <<worker, wg, producer, closer>>
       ELSE /\ worker' = [w \in 1..Len(components) |-> Idle]
            /\ wg' = Len(components)
            /\ producer' = [pc |-> "sending", next |-> 1]
            /\ closer' = "waiting"
            /\ main' = "collect"
            /\ UNCHANGED returned
    /\ UNCHANGED <<bom, configured, maxWorkers, cancelled, jobs, jobsClosed, results, resultsClosed,
                   componentToLag, errorCount, jobOutcome, jobLag>>
    /\ UNCHANGED <<semverVars, graphVars, aggVars>>

\* Lines 61-99: the two early returns, or the channels are made and the workers, the
\* producer and the closer are started.
MainStart ==
    /\ main = "start"
    /\ IF ~bom.hasComponents
       THEN /\ returned' = "error"
            /\ main' = "done"
            /\ UNCHANGED <<worker, wg, producer, closer>>
       ELSE IF Len(components) = 0
       THEN /\ returned' = "map"
            /\ main' = "done"
            /\ UNCHANGED <<worker, wg, producer, closer>>
       ELSE /\ worker' = [w \in 1..maxWorkers |-> Idle]
            /\ wg' = maxWorkers
            /\ producer' = [pc |-> "sending", next |-> 1]
            /\ closer' = "waiting"
            /\ main' = "collect"
            /\ UNCHANGED returned
    /\ UNCHANGED <<bom, configured, maxWorkers, cancelled, jobs, jobsClosed, results, resultsClosed,
                   componentToLag, errorCount, jobOutcome, jobLag>>
    /\ UNCHANGED <<semverVars, graphVars, aggVars>>

\* The producer's select, first case: the next job goes into the jobs channel.
ProducerSend ==
    /\ producer.pc = "sending"
    /\ producer.next <= Len(components)
    /\ Len(jobs) < Capacity
    /\ jobs' = Append(jobs, producer.next)
    /\ producer' = [producer EXCEPT !.next = producer.next + 1]
    /\ UNCHANGED <<bom, configured, maxWorkers, cancelled, jobsClosed, results, resultsClosed, worker,
                   wg, closer, main, componentToLag, errorCount, returned, jobOutcome, jobLag>>
    /\ UNCHANGED <<semverVars, graphVars, aggVars>>

\* The producer's select, second case: ctx.Done() is ready, return (and close(jobs)).
ProducerCancelled ==
    /\ producer.pc = "sending"
    /\ producer.next <= Len(components)
    /\ cancelled
    /\ jobsClosed' = TRUE
    /\ producer' = [producer EXCEPT !.pc = "done"]
    /\ UNCHANGED <<bom, configured, maxWorkers, cancelled, jobs, results, resultsClosed, worker,
                   wg, closer, main, componentToLag, errorCount, returned, jobOutcome, jobLag>>
    /\ UNCHANGED <<semverVars, graphVars, aggVars>>

\* A plausible slip: the producer returns without closing the jobs channel.
ProducerFinishNoClose ==
    /\ producer.pc = "sending"
    /\ producer.next > Len(components)
    /\ producer' = [producer EXCEPT !.pc = "done"]
    /\ UNCHANGED <<bom, configured, maxWorkers, cancelled, jobs, jobsClosed, results, resultsClosed,
                   worker, wg, closer, main, componentToLag, errorCount, returned,
                   jobOutcome, jobLag>>
    /\ UNCHANGED <<semverVars, graphVars, aggVars>>

\* The loop over the components is over: the deferred close(jobs) runs.
ProducerFinish ==
    /\ producer.pc = "sending"
    /\ producer.next > Len(components)
    /\ jobsClosed' = TRUE
    /\ producer' = [producer EXCEPT !.pc = "done"]
    /\ UNCHANGED <<bom, configured, maxWorkers, cancelled, jobs, results, resultsClosed, worker,
                   wg, closer, main, componentToLag, errorCount, returned, jobOutcome, jobLag>>
    /\ UNCHANGED <<semverVars, graphVars, aggVars>>

Workers == DOMAIN worker

\* The worker's select, first case with ok: a job is received.
WorkerReceive(w) ==
    /\ worker[w].pc = "select"
    /\ jobs # <<>>
    /\ worker' = [worker EXCEPT ![w] = [pc |-> "calculate", job |-> Head(jobs),
                                        result |-> LagError("")]]
    /\ jobs' = Tail(jobs)
    /\ UNCHANGED <<bom, configured, maxWorkers, cancelled, jobsClosed, results, resultsClosed,
                   producer, wg, closer, main, componentToLag, errorCount, returned,
                   jobOutcome, jobLag>>
    /\ UNCHANGED <<semverVars, graphVars, aggVars>>

\* The worker's select, first case with !ok: jobs is closed and drained; return, and
\* the deferred wg.Done() runs.
WorkerJobsClosed(w) ==
    /\ worker[w].pc = "select"
    /\ jobs = <<>>
    /\ jobsClosed
    /\ worker' = [worker EXCEPT ![w].pc = "exited"]
    /\ wg' = wg - 1
    /\ UNCHANGED <<bom, configured, maxWorkers, cancelled, jobs, jobsClosed, results, resultsClosed,
                   producer, closer, main, componentToLag, errorCount, returned,
                   jobOutcome, jobLag>>
    /\ UNCHANGED <<semverVars, graphVars, aggVars>>

\* The worker's select, second case: ctx.Done() is ready; return, wg.Done().
WorkerCancelled(w) ==
    /\ worker[w].pc = "select"
    /\ cancelled
    /\ worker' = [worker EXCEPT ![w].pc = "exited"]
    /\ wg' = wg - 1
    /\ UNCHANGED <<bom, configured, maxWorkers, cancelled, jobs, jobsClosed, results, resultsClosed,
                   producer, closer, main, componentToLag, errorCount, returned,
                   jobOutcome, jobLag>>
    /\ UNCHANGED <<semverVars, graphVars, aggVars>>

\* calc.calculateComponentLag(ctx, job.component), with whatever the registry answers.
WorkerCalculate(w) ==
    /\ worker[w].pc = "calculate"
    /\ \E answer \in RegistryAnswers :
          LET r == calculateComponentLag(components[worker[w].job], answer) IN
          /\ worker' = [worker EXCEPT ![w].pc = "send", ![w].result = r]
          /\ jobOutcome' = [jobOutcome EXCEPT ![worker[w].job] =
                                IF r.err = "" THEN "succeeded" ELSE "failed"]
          /\ jobLag' = [jobLag EXCEPT ![worker[w].job] = r.lag]
    /\ UNCHANGED <<bom, configured, maxWorkers, cancelled, jobs, jobsClosed, results, resultsClosed,
                   producer, wg, closer, main, componentToLag, errorCount, returned>>
    /\ UNCHANGED <<semverVars, graphVars, aggVars>>

\* results <- componentResult{...}: blocks while the channel is full.
WorkerSend(w) ==
    /\ worker[w].pc = "send"
    /\ ~resultsClosed
    /\ Len(results) < Capacity
    /\ results' = Append(results, componentResult(worker[w].job, worker[w].result))
    /\ worker' = [worker EXCEPT ![w] = Idle]
    /\ UNCHANGED <<bom, configured, maxWorkers, cancelled, jobs, jobsClosed, resultsClosed,
                   producer, wg, closer, main, componentToLag, errorCount, returned,
                   jobOutcome, jobLag>>
    /\ UNCHANGED <<semverVars, graphVars, aggVars>>

WorkerStep(w) ==
    \/ WorkerReceive(w)
    \/ WorkerJobsClosed(w)
    \/ WorkerCancelled(w)
    \/ WorkerCalculate(w)
    \/ WorkerSend(w)

\* A plausible slip: results is closed without waiting for the workers.
CloserCloseWithoutWait ==
    /\ closer = "waiting"
    /\ resultsClosed' = TRUE
    /\ closer' = "done"
    /\ UNCHANGED <<bom, configured, maxWorkers, cancelled, jobs, jobsClosed, results, producer,
                   worker, wg, main, componentToLag, errorCount, returned, jobOutcome, jobLag>>
    /\ UNCHANGED <<semverVars, graphVars, aggVars>>

\* wg.Wait() returns once every worker is done; then close(results).
CloserClose ==
    /\ closer = "waiting"
    /\ wg = 0
    /\ resultsClosed' = TRUE
    /\ closer' = "done"
    /\ UNCHANGED <<bom, configured, maxWorkers, cancelled, jobs, jobsClosed, results, producer,
                   worker, wg, main, componentToLag, errorCount, returned, jobOutcome, jobLag>>
    /\ UNCHANGED <<semverVars, graphVars, aggVars>>

\* A plausible slip: the first failed result ends the batch with an error.
MainCollectAborting ==
    /\ main = "collect"
    /\ results # <<>>
    /\ LET result == Head(results) IN
       IF result.err # ""
       THEN /\ returned' = "error"
            /\ main' = "done"
            /\ UNCHANGED <<componentToLag, errorCount>>
       ELSE /\ componentToLag' =
                   [c \in DOMAIN componentToLag \cup {result.component} |->
                       IF c = result.component THEN result.lag ELSE componentToLag[c]]
            /\ UNCHANGED <<errorCount, returned, main>>
    /\ results' = Tail(results)
    /\ UNCHANGED <<bom, configured, maxWorkers, cancelled, jobs, jobsClosed, resultsClosed, producer,
                   worker, wg, closer, jobOutcome, jobLag>>
    /\ UNCHANGED <<semverVars, graphVars, aggVars>>

\* A plausible slip: the n-th result received is taken to belong to the n-th component.
MainCollectByArrival ==
    /\ main = "collect"
    /\ results # <<>>
    /\ LET result == Head(results)
           nth == components[Cardinality(DOMAIN componentToLag) + errorCount + 1]
       IN
       IF result.err # ""
       THEN /\ errorCount' = errorCount + 1
            /\ UNCHANGED componentToLag
       ELSE /\ componentToLag' =
                   [c \in DOMAIN componentToLag \cup {nth} |->
                       IF c = nth THEN result.lag ELSE componentToLag[c]]
            /\ UNCHANGED errorCount
    /\ results' = Tail(results)
    /\ UNCHANGED <<bom, configured, maxWorkers, cancelled, jobs, jobsClosed, resultsClosed, producer,
                   worker, wg, closer, main, returned, jobOutcome, jobLag>>
    /\ UNCHANGED <<semverVars, graphVars, aggVars>>

\* One iteration of "for result := range results": a failed result is counted, a
\* successful one is stored under its component.
MainCollect ==
    /\ main = "collect"
    /\ results # <<>>
    /\ LET result == Head(results) IN
       IF result.err # ""
       THEN /\ errorCount' = errorCount + 1
            /\ UNCHANGED componentToLag
       ELSE /\ componentToLag' =
                   [c \in DOMAIN componentToLag \cup {result.component} |->
                       IF c = result.component THEN result.lag ELSE componentToLag[c]]
            /\ UNCHANGED errorCount
    /\ results' = Tail(results)
    /\ UNCHANGED <<bom, configured, maxWorkers, cancelled, jobs, jobsClosed, resultsClosed, producer,
                   worker, wg, closer, main, returned, jobOutcome, jobLag>>
    /\ UNCHANGED <<semverVars, graphVars, aggVars>>

\* The range loop ends when results is closed and drained; Calculate returns the map.
MainReturn ==
    /\ main = "collect"
    /\ results = <<>>
    /\ resultsClosed
    /\ returned' = "map"
    /\ main' = "done"
    /\ UNCHANGED <<bom, configured, maxWorkers, cancelled, jobs, jobsClosed, results, resultsClosed,
                   producer, worker, wg, closer, componentToLag, errorCount, jobOutcome, jobLag>>
    /\ UNCHANGED <<semverVars, graphVars, aggVars>>

\* The caller's context is cancelled (timeout or interrupt), at any moment.
Cancel ==
    /\ ~cancelled
    /\ returned = "pending"
    /\ cancelled' = TRUE
    /\ UNCHANGED <<bom, configured, maxWorkers, jobs, jobsClosed, results, resultsClosed, producer,
                   worker, wg, closer, main, componentToLag, errorCount, returned,
                   jobOutcome, jobLag>>
    /\ UNCHANGED <<semverVars, graphVars, aggVars>>

Producer == ProducerSend \/ ProducerCancelled \/ ProducerFinish
Main == MainStart \/ MainCollect \/ MainReturn

\* A step of any goroutine of Calculate.
Goroutines ==
    \/ Main
    \/ Producer
    \/ \E w \in Workers : WorkerStep(w)
    \/ CloserClose

NextCalculate == Goroutines \/ Cancel

SpecCalculate == InitCalculate /\ [][NextCalculate]_vars

\* The Go scheduler runs a runnable goroutine: while some goroutine can take a step,
\* one of them eventually does. The context need never be cancelled.
FairSpecCalculate == SpecCalculate /\ WF_vars(Goroutines)

(***************************************************************************)
(* SpecPool: Calculate with a pool smaller than the manifest, and with the *)
(* pool NewCalculator falls back to and the package-level Calculate asks   *)
(* for (on a manifest of one component).                                   *)
(***************************************************************************)
\* One component whose lag can be calculated and one for which it cannot.
PoolComponents ==
    { Component("a", "pkg:npm/a@1.0.0", "1.0.0"),
      Component("nopurl", "", "1.0.0") }

PoolManifests ==
    {[hasComponents |-> TRUE, components |-> cs] :
        cs \in UNION {[1..n -> PoolComponents] : n \in 0..NumComponents}}

SingleManifest ==
    [hasComponents |-> TRUE, components |-> <<Component("a", "pkg:npm/a@1.0.0", "1.0.0")>>]

InitPool ==
    \/ InitCalculateWith(MadeByNewCalculator(1..MaxWorkers), PoolManifests)
    \/ InitCalculateWith(MadeByNewCalculator({-1, 0}) \cup {MadeByCalculate}, {SingleManifest})

SpecPool == InitPool /\ [][NextCalculate]_vars

(***************************************************************************)
(* Properties of Calculator.Calculate (SpecCalculate, FairSpecCalculate)   *)
(***************************************************************************)
Indices == 1..Len(components)
Succeeded == {i \in Indices : jobOutcome[i] = "succeeded"}
Failed == {i \in Indices : jobOutcome[i] = "failed"}

\* C9: Calculate fails only for a manifest without components collection; otherwise
\* it returns a map, and without cancellation every job has run and the map holds
\* exactly the components of the jobs that succeeded.
C9_OnlyFailedJobsAreOmitted ==
    /\ returned # "pending" => (returned = "error" <=> ~bom.hasComponents)
    /\ (returned = "map" /\ ~cancelled) =>
          /\ Succeeded \cup Failed = Indices
          /\ DOMAIN componentToLag = {components[i] : i \in Succeeded}
          /\ errorCount = Cardinality(Failed)

C9_Witness ==
    /\ returned = "map"
    /\ ~cancelled
    /\ Succeeded # {}
    /\ Failed # {}
    /\ \E i \in Failed : components[i] \notin DOMAIN componentToLag

PoolStarted == bom.hasComponents /\ Len(components) > 0

\* Calculate has returned and nothing of it is left running.
Finished ==
    /\ returned # "pending"
    /\ PoolStarted =>
          /\ producer.pc = "done"
          /\ \A w \in Workers : worker[w].pc = "exited"
          /\ closer = "done"
          /\ resultsClosed
          /\ results = <<>>
          /\ main = "done"

\* C10: with or without cancellation, Calculate eventually returns, the producer has
\* finished, every worker has exited, results is closed and the main flow has
\* stopped draining.
C10_CalculateTerminates == <>Finished

\* Cancelled in mid-flight: one job failed, another was never processed.
C10_Witness ==
    /\ Finished
    /\ cancelled
    /\ Failed # {}
    /\ \E i \in Indices : jobOutcome[i] = "none"

\* C11: once the context is cancelled, the producer enqueues no further job and no
\* worker takes a further job from the jobs channel.
C11_NoDispatchAfterCancel ==
    [][cancelled =>
          /\ Len(jobs') <= Len(jobs)
          /\ \A w \in DOMAIN worker' :
                worker'[w].pc = "calculate" =>
                    (w \in DOMAIN worker /\ worker[w].pc = "calculate")]_vars

\* C12: when Calculate has returned the map of a started pool, every worker has
\* exited, the results channel is closed and empty, and this stays so: nothing can
\* write a result afterwards.
C12_ReturnsAfterDrain ==
    (returned = "map" /\ PoolStarted) =>
        /\ \A w \in Workers : worker[w].pc = "exited"
        /\ wg = 0
        /\ resultsClosed
        /\ results = <<>>
        /\ \A w \in Workers : ~ENABLED WorkerSend(w)

\* Calculate has returned a map with a computed lag; another job had failed.
C12_Witness ==
    /\ returned = "map"
    /\ PoolStarted
    /\ DOMAIN componentToLag # {}
    /\ errorCount > 0
    /\ \A w \in Workers : worker[w].pc = "exited"

\* The registry answered the same for equal components.
FixedResponses ==
    \A i, j \in Indices :
        components[i] = components[j] =>
            (jobOutcome[i] = jobOutcome[j] /\ jobLag[i] = jobLag[j])

\* The map that the jobs' own results determine, whatever the order of completion.
MapOfJobs ==
    [c \in {components[i] : i \in Succeeded} |->
        jobLag[CHOOSE i \in Succeeded : components[i] = c]]

\* C13: every entry of the returned map is the lag computed by a job of that very
\* component, and with fixed registry responses and no cancellation the map is the one
\* the jobs' results determine, for every interleaving and order of completion.
C13_MapIsTheJobsOwnLags ==
    (returned = "map" /\ ~cancelled) =>
        /\ \A c \in DOMAIN componentToLag :
              \E i \in Succeeded : components[i] = c /\ componentToLag[c] = jobLag[i]
        /\ FixedResponses => componentToLag = MapOfJobs

\* Two workers, two components with different lags, both in the returned map.
C13_Witness ==
    /\ returned = "map"
    /\ ~cancelled
    /\ maxWorkers >= 2
    /\ FixedResponses
    /\ \E c, d \in DOMAIN componentToLag : componentToLag[c] # componentToLag[d]

(***************************************************************************)
(* sbom: the manifest's dependency graph (internal/sbom/sbom.go)           *)
(***************************************************************************)
\* A cdx.Component as the graph queries and the aggregation see it.
GraphComponent(ref, scope) ==
    [BOMRef |-> ref, Name |-> ref, Version |-> "1.0.0", PackageURL |-> ref, Scope |-> scope]

\* A cdx.Dependency: Ref and Dependencies, which is nil or a list of references.
Dependency(ref, isNil, dependsOn) == [Ref |-> ref, isNil |-> isNil, Dependencies |-> dependsOn]

\* A *cdx.BOM: nil, or Metadata (with its Component and BOMRef), Dependencies and
\* Components, each of which may be missing.
BOM(hasMetadata, hasProject, projectRef, hasDependencies, dependencies, hasComponents, cs) ==
    [isNil |-> FALSE, hasMetadata |-> hasMetadata, hasProject |-> hasProject,
     projectRef |-> projectRef, hasDependencies |-> hasDependencies,
     dependencies |-> dependencies, hasComponents |-> hasComponents, components |-> cs]

NilBOM == [BOM(FALSE, FALSE, "", FALSE, <<>>, FALSE, <<>>) EXCEPT !.isNil = TRUE]

\* A plausible slip: the dependencies section is not checked.
ValidateBOMWithoutDependencies(b) ==
    IF b.isNil THEN "BOM is nil"
    ELSE IF ~b.hasMetadata THEN "ErrNoMetadata"
    ELSE IF ~b.hasProject THEN "ErrNoProjectComponent"
    ELSE IF b.projectRef = "" THEN "ErrEmptyProjectRef"
    ELSE IF ~b.hasComponents THEN "ErrNoComponents"
    ELSE ""

ValidateBOM(b) ==
    IF b.isNil THEN "BOM is nil"
    ELSE IF ~b.hasMetadata THEN "ErrNoMetadata"
    ELSE IF ~b.hasProject THEN "ErrNoProjectComponent"
    ELSE IF b.projectRef = "" THEN "ErrEmptyProjectRef"
    ELSE IF ~b.hasDependencies THEN "ErrNoDependencies"
    ELSE IF ~b.hasComponents THEN "ErrNoComponents"
    ELSE ""

\* The index of the first dependency entry whose Ref is ref, 0 if there is none.
findDependency(dependencies, ref) ==
    LET hits == {i \in 1..Len(dependencies) : dependencies[i].Ref = ref}
    IN IF hits = {} THEN 0 ELSE CHOOSE i \in hits : \A j \in hits : i <= j

findProjectDependency(dependencies, projectRef) ==
    LET i == findDependency(dependencies, projectRef)
    IN IF i = 0 THEN [err |-> "ErrProjectNotFound", index |-> 0]
       ELSE [err |-> "", index |-> i]

RefsOf(refs) == {refs[i] : i \in 1..Len(refs)}

DepsResult(e, ds) == [err |-> e, deps |-> ds]

\* GetDirectDeps: the components, in the order of bom.Components, whose reference is
\* listed in the project's dependency entry.
GetDirectDeps(b) ==
    IF ValidateBOM(b) # "" THEN DepsResult(ValidateBOM(b), <<>>)
    ELSE LET projectDep == findProjectDependency(b.dependencies, b.projectRef) IN
         IF projectDep.err # "" THEN DepsResult(projectDep.err, <<>>)
         ELSE LET dep == b.dependencies[projectDep.index] IN
              IF dep.isNil THEN DepsResult("ErrNoDirectDependencies", <<>>)
              ELSE DepsResult("", SelectSeq(b.components,
                                    LAMBDA c : c.BOMRef \in RefsOf(dep.Dependencies)))

\* The first component with the reference, as a list of zero or one component.
ComponentByRef(cs, ref) ==
    LET hits == {i \in 1..Len(cs) : cs[i].BOMRef = ref}
    IN IF hits = {} THEN <<>> ELSE <<cs[CHOOSE i \in hits : \A j \in hits : i <= j]>>

RECURSIVE ComponentsByRefs(_, _)
ComponentsByRefs(cs, refs) ==
    IF refs = <<>> THEN <<>>
    ELSE ComponentByRef(cs, refs[1]) \o ComponentsByRefs(cs, Tail(refs))

\* GetDirectDependenciesOf: no entry or a nil list give an empty list; otherwise one
\* component per listed reference that bom.Components knows, in the listed order.
GetDirectDependenciesOf(b, componentRef) ==
    IF ValidateBOM(b) # "" THEN DepsResult(ValidateBOM(b), <<>>)
    ELSE IF componentRef = "" THEN DepsResult("empty component reference", <<>>)
    ELSE LET i == findDependency(b.dependencies, componentRef) IN
         IF i = 0 THEN DepsResult("", <<>>)
         ELSE IF b.dependencies[i].isNil THEN DepsResult("", <<>>)
         ELSE DepsResult("", ComponentsByRefs(b.components, b.dependencies[i].Dependencies))

\* The references the dependency entry of ref lists; none without an entry.
Adjacent(b, ref) ==
    LET i == findDependency(b.dependencies, ref)
    IN IF i = 0 THEN <<>> ELSE b.dependencies[i].Dependencies

PathResult(e, isNil, p) == [err |-> e, isNil |-> isNil, path |-> p]

\* The neighbours not yet visited, each once, in the listed order.
RECURSIVE Unvisited(_, _)
Unvisited(refs, visited) ==
    IF refs = <<>> THEN <<>>
    ELSE IF refs[1] \in visited THEN Unvisited(Tail(refs), visited)
    ELSE <<refs[1]>> \o Unvisited(Tail(refs), visited \cup {refs[1]})

RECURSIVE Extend(_, _)
Extend(p, refs) ==
    IF refs = <<>> THEN <<>> ELSE <<Append(p, refs[1])>> \o Extend(p, Tail(refs))

\* A plausible slip: the search goes depth first (the newest path is expanded first
\* and a reference counts as visited only once it is expanded).
RECURSIVE DepthFirstSearch(_, _, _, _)
DepthFirstSearch(b, target, queue, visited) ==
    IF queue = <<>> THEN <<>>
    ELSE LET p == Head(queue)
             node == p[Len(p)]
             next == Unvisited(Adjacent(b, node), visited \cup {node})
         IN IF node = target THEN Tail(p)
            ELSE IF node \in visited /\ Len(p) > 1
            THEN DepthFirstSearch(b, target, Tail(queue), visited)
            ELSE DepthFirstSearch(b, target, Extend(p, next) \o Tail(queue),
                                  visited \cup {node})

\* Breadth-first search over paths that start at the root; a reference is visited
\* once. The result is the path to the target without the root, <<>> if there is none.
RECURSIVE BreadthFirstSearch(_, _, _, _)
BreadthFirstSearch(b, target, queue, visited) ==
    IF queue = <<>> THEN <<>>
    ELSE LET p == Head(queue)
             node == p[Len(p)]
             next == Unvisited(Adjacent(b, node), visited)
         IN IF node = target THEN Tail(p)
            ELSE BreadthFirstSearch(b, target, Tail(queue) \o Extend(p, next),
                                    visited \cup RefsOf(next))

\* GetDependencyPath: InvalidInput for a manifest that does not validate or an empty
\* target; nil for an unreachable target; otherwise the components of the shortest
\* path, root excluded, target included.
GetDependencyPath(b, target) ==
    IF ValidateBOM(b) # "" THEN PathResult(ValidateBOM(b), TRUE, <<>>)
    ELSE IF target = "" THEN PathResult("empty target reference", TRUE, <<>>)
    ELSE LET refs == BreadthFirstSearch(b, target, <<<<b.projectRef>>>>, {b.projectRef})
         IN IF refs = <<>> THEN PathResult("", TRUE, <<>>)
            ELSE PathResult("", FALSE, ComponentsByRefs(b.components, refs))

(***************************************************************************)
(* Graph queries on manifests: SpecGraph draws a manifest with NumRefs     *)
(* components and any dependency edges among them (cycles included), then  *)
(* calls GetDirectDeps and GetDependencyPath.                              *)
(***************************************************************************)
RefNames == <<"c1", "c2", "c3", "c4", "c5", "c6">>
ProjectRef == "project"
Refs == {RefNames[i] : i \in 1..NumRefs}

\* Lists of at most two of the components, in ascending order.
AscendingRefLists(among) ==
    {<<>>} \cup {<<RefNames[i]>> : i \in among}
           \cup {<<RefNames[p[1]], RefNames[p[2]]>> :
                    p \in {q \in among \X among : q[1] < q[2]}}

GraphComponents == [i \in 1..NumRefs |-> GraphComponent(RefNames[i], "required")]

\* The project's entry: missing, with a nil list, or listing up to two components.
ProjectEntries ==
    {<<>>, <<Dependency(ProjectRef, TRUE, <<>>)>>}
    \cup {<<Dependency(ProjectRef, FALSE, l)>> : l \in AscendingRefLists(1..NumRefs)}

\* The entries of the components: each lists up to two other components.
ComponentEntries ==
    {[i \in 1..NumRefs |-> Dependency(RefNames[i], FALSE, f[i])] :
        f \in {g \in [1..NumRefs -> AscendingRefLists(1..NumRefs)] :
                  \A i \in 1..NumRefs : RefNames[i] \notin RefsOf(g[i])}}

\* Manifests that lack a part the graph queries need.
BrokenManifests ==
    { NilBOM,
      BOM(FALSE, FALSE, "", TRUE, <<>>, TRUE, GraphComponents),
      BOM(TRUE, FALSE, "", TRUE, <<>>, TRUE, GraphComponents),
      BOM(TRUE, TRUE, "", TRUE, <<>>, TRUE, GraphComponents),
      BOM(TRUE, TRUE, ProjectRef, FALSE, <<>>, TRUE, GraphComponents),
      BOM(TRUE, TRUE, ProjectRef, TRUE, <<Dependency(ProjectRef, FALSE, <<"c1">>)>>,
          FALSE, <<>>) }

GraphManifests ==
    {BOM(TRUE, TRUE, ProjectRef, TRUE, p \o cs, TRUE, GraphComponents) :
        p \in ProjectEntries, cs \in ComponentEntries}
    \cup BrokenManifests

Targets == Refs \cup {"", "unknown"}

InitCalcIdleWith(b) ==
    /\ bom = b
    /\ configured = NotConfigured
    /\ maxWorkers = 0
    /\ cancelled = FALSE
    /\ jobs = <<>>
    /\ jobsClosed = FALSE
    /\ results = <<>>
    /\ resultsClosed = FALSE
    /\ producer = [pc |-> "idle", next |-> 1]
    /\ worker = <<>>
    /\ wg = 0
    /\ closer = "idle"
    /\ main = "idle"
    /\ componentToLag = <<>>
    /\ errorCount = 0
    /\ returned = "pending"
    /\ jobOutcome = <<>>
    /\ jobLag = <<>>

InitGraph ==
    /\ \E b \in GraphManifests : InitCalcIdleWith(b)
    /\ InitSemverIdle
    /\ InitGraphIdle
    /\ InitAggIdle

CallGetDirectDeps ==
    /\ directDeps = NotCalledDeps
    /\ directDeps' = GetDirectDeps(bom)
    /\ UNCHANGED <<targetRef, componentPath>>
    /\ UNCHANGED <<semverVars, calcVars, aggVars>>

CallGetDependencyPath ==
    /\ directDeps # NotCalledDeps
    /\ componentPath = NotCalledPath
    /\ \E t \in Targets :
          /\ targetRef' = t
          /\ componentPath' = GetDependencyPath(bom, t)
    /\ UNCHANGED directDeps
    /\ UNCHANGED <<semverVars, calcVars, aggVars>>

NextGraph == CallGetDirectDeps \/ CallGetDependencyPath

SpecGraph == InitGraph /\ [][NextGraph]_vars

(***************************************************************************)
(* Properties of the graph queries (SpecGraph)                             *)
(***************************************************************************)
ProjectEntry == findDependency(bom.dependencies, bom.projectRef)

\* C18: on a manifest that validates, GetDirectDeps fails with ErrProjectNotFound
\* when the project has no dependency entry, with ErrNoDirectDependencies when the
\* entry lists nothing, and succeeds only when the entry lists a dependency.
C18_DirectDepsErrors ==
    (directDeps # NotCalledDeps /\ ValidateBOM(bom) = "") =>
        /\ ProjectEntry = 0 => directDeps.err = "ErrProjectNotFound"
        /\ (ProjectEntry # 0 /\ Len(bom.dependencies[ProjectEntry].Dependencies) = 0)
              => directDeps.err = "ErrNoDirectDependencies"
        /\ directDeps.err = ""
              => (ProjectEntry # 0 /\ Len(bom.dependencies[ProjectEntry].Dependencies) > 0)

\* The references reachable from the given ones along at most k dependency edges.
RECURSIVE ReachWithin(_, _)
ReachWithin(from, k) ==
    IF k = 0 THEN from
    ELSE LET prev == ReachWithin(from, k - 1)
         IN prev \cup UNION {RefsOf(Adjacent(bom, n)) : n \in prev}

Reachable(t) == t \in ReachWithin({bom.projectRef}, NumRefs)

\* The least number of edges from the root to a reachable reference.
Distance(t) == CHOOSE k \in 0..NumRefs :
                  /\ t \in ReachWithin({bom.projectRef}, k)
                  /\ \A j \in 0..(k - 1) : t \notin ReachWithin({bom.projectRef}, j)

OnCycle(r) == r \in ReachWithin(RefsOf(Adjacent(bom, r)), NumRefs)

PathRefs == [i \in 1..Len(componentPath.path) |-> componentPath.path[i].BOMRef]

\* C19: for a target reachable from the root, in any graph, GetDependencyPath returns
\* a path without the root that starts at a direct dependency of the root, follows
\* dependency edges, ends at the target and is as short as any such path.
C19_ShortestPath ==
    (componentPath # NotCalledPath /\ ValidateBOM(bom) = "" /\ targetRef # ""
        /\ Reachable(targetRef)) =>
        /\ componentPath.err = ""
        /\ ~componentPath.isNil
        /\ Len(PathRefs) >= 1
        /\ bom.projectRef \notin RefsOf(PathRefs)
        /\ PathRefs[1] \in RefsOf(Adjacent(bom, bom.projectRef))
        /\ \A i \in 1..(Len(PathRefs) - 1) :
              PathRefs[i + 1] \in RefsOf(Adjacent(bom, PathRefs[i]))
        /\ PathRefs[Len(PathRefs)] = targetRef
        /\ Len(PathRefs) = Distance(targetRef)

\* A cyclic graph in which the target is two edges away and also reachable by a
\* longer route.
C19_Witness ==
    /\ componentPath # NotCalledPath
    /\ componentPath.err = ""
    /\ Len(componentPath.path) = 2
    /\ \E r \in Refs : OnCycle(r)
    /\ \E r \in Refs \ {PathRefs[1], targetRef} :
          /\ r \in RefsOf(Adjacent(bom, bom.projectRef))
          /\ targetRef \in ReachWithin({r}, NumRefs)

\* The manifest lacks the root reference, the dependency section or the component list.
MissingStructure ==
    \/ bom.isNil
    \/ ~bom.hasMetadata
    \/ ~bom.hasProject
    \/ bom.projectRef = ""
    \/ ~bom.hasDependencies
    \/ ~bom.hasComponents

\* C20: GetDependencyPath fails exactly for an empty target or a manifest that lacks
\* the root reference, the dependency section or the component list; for a target
\* that is not reachable from the root it returns nil, without error and without a
\* path.
C20_UnreachableIsNil ==
    componentPath # NotCalledPath =>
        /\ componentPath.err # "" <=> (targetRef = "" \/ MissingStructure)
        /\ (~MissingStructure /\ targetRef # "" /\ ~Reachable(targetRef)) =>
              /\ componentPath.err = ""
              /\ componentPath.isNil
              /\ componentPath.path = <<>>

\* The target depends on a component the root reaches, but nothing the root reaches
\* depends on the target.
C20_Witness ==
    /\ componentPath # NotCalledPath
    /\ ~MissingStructure
    /\ targetRef \in Refs
    /\ ~Reachable(targetRef)
    /\ \E r \in Refs : Reachable(r) /\ r \in RefsOf(Adjacent(bom, targetRef))
    /\ componentPath.isNil
    /\ componentPath.err = ""

(***************************************************************************)
(* CreateResult and its helpers (technicalLag.go). Libdays are whole days; *)
(* a CriticalityScore is the fraction num/den in lowest terms.             *)
(***************************************************************************)
RECURSIVE GCD(_, _)
GCD(a, b) == IF b = 0 THEN a ELSE GCD(b, a % b)

Ratio(n, d) == IF n = 0 THEN [num |-> 0, den |-> 1]
               ELSE [num |-> n \div GCD(n, d), den |-> d \div GCD(n, d)]
ZeroScore == Ratio(0, 1)
Greater(x, y) == x.num * y.den > y.num * x.den

\* The zero value of cdx.Component.
ZeroComponent == [BOMRef |-> "", Name |-> "", Version |-> "", PackageURL |-> "", Scope |-> ""]

ComponentLag(component, lag, score) ==
    [Component |-> component, TechnicalLag |-> lag, CriticalityScore |-> score]

NilPath == [isNil |-> TRUE, path |-> <<>>]

\* TechLagStats{Components: make([]ComponentLag, 0)}.
TechLagStats ==
    [HighestLibdays |-> 0, HighestMissedReleases |-> 0, HighestCriticalityScore |-> ZeroScore,
     ComponentHighestMissedReleases |-> ZeroComponent,
     ComponentHighestLibdays |-> ZeroComponent,
     ComponentHighestCriticalityScore |-> ZeroComponent,
     ComponentHighestCriticalityScorePath |-> NilPath,
     Components |-> <<>>,
     TotalLibdays |-> 0, TotalMissedReleases |-> 0, TotalMissedMajor |-> 0,
     TotalMissedMinor |-> 0, TotalMissedPatch |-> 0, TotalNumComponents |-> 0]

Result == [Production |-> TechLagStats, Optional |-> TechLagStats,
           DirectProduction |-> TechLagStats, DirectOptional |-> TechLagStats]

\* A plausible slip: "runtime" is forgotten.
isProductionScopeWithoutRuntime(scope) == scope = "" \/ scope = "required"

isProductionScope(scope) == scope = "" \/ scope = "required" \/ scope = "runtime"

LibdaysIn(metrics, c) == IF c \in DOMAIN metrics THEN metrics[c].Libdays ELSE 0

\* The lag of the listed components, as far as they have metrics.
RECURSIVE SumLibdays(_, _)
SumLibdays(metrics, cs) ==
    IF cs = <<>> THEN 0 ELSE LibdaysIn(metrics, cs[1]) + SumLibdays(metrics, Tail(cs))

\* The lag of a set of components.
RECURSIVE SumLibdaysOf(_, _)
SumLibdaysOf(metrics, S) ==
    IF S = {} THEN 0
    ELSE LET c == CHOOSE x \in S : TRUE
         IN LibdaysIn(metrics, c) + SumLibdaysOf(metrics, S \ {c})

\* A plausible slip: the score is the component's own lag over the scope's lag.
CalculateCriticalityScoreOfOwnLag(component, b, metrics, totalScopeLibyears) ==
    IF totalScopeLibyears = 0 THEN ZeroScore
    ELSE Ratio(LibdaysIn(metrics, component), totalScopeLibyears)

\* A plausible slip: numerator and denominator are swapped.
CalculateCriticalityScoreInverted(component, b, metrics, totalScopeLibyears) ==
    IF totalScopeLibyears = 0 THEN ZeroScore
    ELSE LET direct == GetDirectDependenciesOf(b, component.BOMRef) IN
         IF direct.err # "" \/ SumLibdays(metrics, direct.deps) = 0 THEN ZeroScore
         ELSE Ratio(totalScopeLibyears, SumLibdays(metrics, direct.deps))

\* CalculateCriticalityScore: the lag of the component's direct dependencies that
\* have metrics, over the lag of the scope.
CalculateCriticalityScore(component, b, metrics, totalScopeLibyears) ==
    IF totalScopeLibyears = 0 THEN ZeroScore
    ELSE LET direct == GetDirectDependenciesOf(b, component.BOMRef) IN
         IF direct.err # "" THEN ZeroScore
         ELSE Ratio(SumLibdays(metrics, direct.deps), totalScopeLibyears)

\* The lag of all components of the metrics whose scope is production (or is not).
TotalScopeLibyears(metrics, production) ==
    SumLibdaysOf(metrics, {c \in DOMAIN metrics : isProductionScope(c.Scope) = production})

\* A plausible slip: the target's score is derived again like the others'.
RECURSIVE componentLagPathDerivingAll(_, _, _, _)
componentLagPathDerivingAll(p, componentLag, b, metrics) ==
    IF p = <<>> THEN <<>>
    ELSE LET pathComponent == p[1]
             rest == componentLagPathDerivingAll(Tail(p), componentLag, b, metrics)
         IN IF pathComponent \notin DOMAIN metrics THEN rest
            ELSE LET score ==
                        CalculateCriticalityScore(pathComponent, b, metrics,
                            TotalScopeLibyears(metrics, isProductionScope(pathComponent.Scope)))
                 IN <<ComponentLag(pathComponent, metrics[pathComponent], score)>> \o rest

\* Lines 447-474 of updateTechLagStats: the path's components that have metrics, the
\* target with the score it was given, the others with a score of their own.
RECURSIVE componentLagPath(_, _, _, _)
componentLagPath(p, componentLag, b, metrics) ==
    IF p = <<>> THEN <<>>
    ELSE LET pathComponent == p[1]
             rest == componentLagPath(Tail(p), componentLag, b, metrics)
         IN IF pathComponent \notin DOMAIN metrics THEN rest
            ELSE LET score ==
                        IF pathComponent.BOMRef = componentLag.Component.BOMRef
                        THEN componentLag.CriticalityScore
                        ELSE CalculateCriticalityScore(pathComponent, b, metrics,
                                 TotalScopeLibyears(metrics,
                                     isProductionScope(pathComponent.Scope)))
                 IN <<ComponentLag(pathComponent, metrics[pathComponent], score)>> \o rest

\* Lines 441-479: the path stored with a new highest criticality score.
highestCriticalityScorePath(component, componentLag, b, metrics) ==
    LET found == GetDependencyPath(b, component.BOMRef) IN
    IF found.err # "" \/ found.isNil THEN NilPath
    ELSE LET p == componentLagPath(found.path, componentLag, b, metrics)
         IN [isNil |-> p = <<>>, path |-> p]

\* A plausible slip: the component count is not incremented.
appendedWithoutCount(stats, componentLag) ==
    [stats EXCEPT
        !.Components = Append(@, componentLag),
        !.TotalLibdays = @ + componentLag.TechnicalLag.Libdays,
        !.TotalMissedReleases = @ + componentLag.TechnicalLag.MissedReleases,
        !.TotalMissedMajor = @ + componentLag.TechnicalLag.MissedMajor,
        !.TotalMissedMinor = @ + componentLag.TechnicalLag.MissedMinor,
        !.TotalMissedPatch = @ + componentLag.TechnicalLag.MissedPatch]

\* Lines 418-426: the component is appended and the running totals grow.
appended(stats, componentLag) ==
    [stats EXCEPT
        !.Components = Append(@, componentLag),
        !.TotalLibdays = @ + componentLag.TechnicalLag.Libdays,
        !.TotalMissedReleases = @ + componentLag.TechnicalLag.MissedReleases,
        !.TotalMissedMajor = @ + componentLag.TechnicalLag.MissedMajor,
        !.TotalMissedMinor = @ + componentLag.TechnicalLag.MissedMinor,
        !.TotalMissedPatch = @ + componentLag.TechnicalLag.MissedPatch,
        !.TotalNumComponents = @ + 1]

\* A plausible slip: the trackers compare with >=, so that the last of equals wins.
updateTechLagStatsLastWins(stats, lag, component, componentLag, b, metrics) ==
    LET s1 == appended(stats, componentLag)
        s2 == IF lag.MissedReleases >= stats.HighestMissedReleases
              THEN [s1 EXCEPT !.HighestMissedReleases = lag.MissedReleases,
                              !.ComponentHighestMissedReleases = component]
              ELSE s1
        s3 == IF lag.Libdays >= stats.HighestLibdays
              THEN [s2 EXCEPT !.HighestLibdays = lag.Libdays,
                              !.ComponentHighestLibdays = component]
              ELSE s2
    IN IF ~Greater(stats.HighestCriticalityScore, componentLag.CriticalityScore)
       THEN [s3 EXCEPT !.HighestCriticalityScore = componentLag.CriticalityScore,
                       !.ComponentHighestCriticalityScore = component,
                       !.ComponentHighestCriticalityScorePath =
                            highestCriticalityScorePath(component, componentLag, b, metrics)]
       ELSE s3

updateTechLagStats(stats, lag, component, componentLag, b, metrics) ==
    LET s1 == appended(stats, componentLag)
        s2 == IF lag.MissedReleases > stats.HighestMissedReleases
              THEN [s1 EXCEPT !.HighestMissedReleases = lag.MissedReleases,
                              !.ComponentHighestMissedReleases = component]
              ELSE s1
        s3 == IF lag.Libdays > stats.HighestLibdays
              THEN [s2 EXCEPT !.HighestLibdays = lag.Libdays,
                              !.ComponentHighestLibdays = component]
              ELSE s2
    IN IF Greater(componentLag.CriticalityScore, stats.HighestCriticalityScore)
       THEN [s3 EXCEPT !.HighestCriticalityScore = componentLag.CriticalityScore,
                       !.ComponentHighestCriticalityScore = component,
                       !.ComponentHighestCriticalityScorePath =
                            highestCriticalityScorePath(component, componentLag, b, metrics)]
       ELSE s3

RECURSIVE SumField(_, _)
SumField(cls, field) ==
    IF cls = <<>> THEN 0 ELSE cls[1].TechnicalLag[field] + SumField(Tail(cls), field)

computeTotals(stats) ==
    [stats EXCEPT
        !.TotalLibdays = SumField(stats.Components, "Libdays"),
        !.TotalMissedReleases = SumField(stats.Components, "MissedReleases"),
        !.TotalMissedMajor = SumField(stats.Components, "MissedMajor"),
        !.TotalMissedMinor = SumField(stats.Components, "MissedMinor"),
        !.TotalMissedPatch = SumField(stats.Components, "MissedPatch"),
        !.TotalNumComponents = Len(stats.Components)]

\* The bucket of a component: its name among the fields of Result.
Bucket(component, direct) ==
    IF isProductionScope(component.Scope)
    THEN (IF direct THEN "DirectProduction" ELSE "Production")
    ELSE (IF direct THEN "DirectOptional" ELSE "Optional")

\* Lines 360-373: the lag of the direct dependencies that have metrics, per scope.
TotalDirectLibyears(metrics, deps, production) ==
    SumLibdays(metrics, SelectSeq(deps, LAMBDA dep :
                   dep \in DOMAIN metrics /\ isProductionScope(dep.Scope) = production))

(***************************************************************************)
(* SpecResult: CreateResult on a manifest of NumRefs components and the    *)
(* metrics of some of them; the range over the map visits the keys in any  *)
(* order.                                                                  *)
(***************************************************************************)
ScopeAssignments ==
    { [i \in 1..NumRefs |-> "required"],
      [i \in 1..NumRefs |-> IF i % 2 = 1 THEN "required" ELSE "optional"],
      [i \in 1..NumRefs |-> IF i % 2 = 1 THEN "" ELSE "excluded"],
      [i \in 1..NumRefs |-> IF i % 2 = 1 THEN "optional" ELSE "runtime"] }

ScopedComponents(scopes) == [i \in 1..NumRefs |-> GraphComponent(RefNames[i], scopes[i])]

AllRefs == [i \in 1..NumRefs |-> RefNames[i]]

\* Each component depends on the next one; the last on none, or on the first.
Chain(closed) ==
    [i \in 1..NumRefs |->
        Dependency(RefNames[i], FALSE,
                   IF i < NumRefs THEN <<RefNames[i + 1]>>
                   ELSE IF closed THEN <<RefNames[1]>> ELSE <<>>)]

Leaves == [i \in 1..NumRefs |-> Dependency(RefNames[i], TRUE, <<>>)]

DependencySections ==
    { <<Dependency(ProjectRef, FALSE, <<"c1", "c2">>)>> \o Chain(FALSE),
      <<Dependency(ProjectRef, FALSE, <<"c1">>)>> \o Chain(TRUE),
      <<Dependency(ProjectRef, FALSE, AllRefs)>> \o Leaves,
      <<Dependency(ProjectRef, FALSE, <<"c1">>),
        Dependency("c1", FALSE, Tail(AllRefs))>>,
      <<Dependency(ProjectRef, FALSE, <<>>)>> \o Chain(FALSE),
      Chain(FALSE) }

AggManifests ==
    {BOM(TRUE, TRUE, ProjectRef, TRUE, ds, TRUE, ScopedComponents(scopes)) :
        ds \in DependencySections, scopes \in ScopeAssignments}
    \cup {BOM(FALSE, FALSE, "", FALSE, <<>>, TRUE, ScopedComponents(scopes)) :
             scopes \in ScopeAssignments}

LagValues ==
    { TechnicalLag(0, VersionDistance("", 0, 0, 0, 0)),
      TechnicalLag(1, VersionDistance("", 2, 1, 1, 0)),
      TechnicalLag(2, VersionDistance("", 1, 0, 0, 1)) }

\* The metrics of any of the manifest's components.
MetricsOf(b) ==
    UNION {[S -> LagValues] : S \in SUBSET RefsOf(b.components)}

InitResult ==
    /\ \E b \in AggManifests : InitCalcIdleWith(b)
    /\ componentMetrics \in MetricsOf(bom)
    /\ lagResult = <<>>
    /\ createResult = [pc |-> "idle", remaining |-> {}, next |-> 1]
    /\ hotPathAnalysis = NotAnalyzed
    /\ InitSemverIdle
    /\ InitGraphIdle

\* Lines 317-333: the empty buckets; the scope totals are sums over the map.
CreateResultStart ==
    /\ createResult.pc = "idle"
    /\ lagResult' = Result
    /\ createResult' = [pc |-> "components", remaining |-> DOMAIN componentMetrics,
                        next |-> 1]
    /\ UNCHANGED <<componentMetrics, hotPathAnalysis>>
    /\ UNCHANGED <<semverVars, calcVars, graphVars>>

\* Lines 336-357: one iteration of the range over componentMetrics.
ProcessComponent ==
    /\ createResult.pc = "components"
    /\ \E component \in createResult.remaining :
          LET lag == componentMetrics[component]
              totalScopeLibyears ==
                  TotalScopeLibyears(componentMetrics, isProductionScope(component.Scope))
              criticalityScore ==
                  CalculateCriticalityScore(component, bom, componentMetrics,
                                            totalScopeLibyears)
              componentLag == ComponentLag(component, lag, criticalityScore)
          IN /\ lagResult' =
                    [lagResult EXCEPT ![Bucket(component, FALSE)] =
                        updateTechLagStats(@, lag, component, componentLag, bom,
                                           componentMetrics)]
             /\ createResult' =
                    [createResult EXCEPT !.remaining = @ \ {component}]
    /\ UNCHANGED <<componentMetrics, hotPathAnalysis>>
    /\ UNCHANGED <<semverVars, calcVars, graphVars>>

\* Line 361: sbom.GetDirectDeps(bom); on an error the direct buckets stay empty.
StartDirect ==
    /\ createResult.pc = "components"
    /\ createResult.remaining = {}
    /\ directDeps' = GetDirectDeps(bom)
    /\ createResult' =
          [createResult EXCEPT !.pc = IF directDeps'.err # "" THEN "totals" ELSE "direct"]
    /\ UNCHANGED <<componentMetrics, lagResult, hotPathAnalysis, targetRef, componentPath>>
    /\ UNCHANGED <<semverVars, calcVars>>

\* Lines 376-399: one iteration of the loop over the direct dependencies.
ProcessDirectDep ==
    /\ createResult.pc = "direct"
    /\ createResult.next <= Len(directDeps.deps)
    /\ LET dep == directDeps.deps[createResult.next] IN
       IF dep \in DOMAIN componentMetrics
       THEN LET lag == componentMetrics[dep]
                totalScopeLibyears ==
                    TotalDirectLibyears(componentMetrics, directDeps.deps,
                                        isProductionScope(dep.Scope))
                criticalityScore ==
                    CalculateCriticalityScore(dep, bom, componentMetrics, totalScopeLibyears)
                componentLag == ComponentLag(dep, lag, criticalityScore)
            IN lagResult' =
                   [lagResult EXCEPT ![Bucket(dep, TRUE)] =
                       updateTechLagStats(@, lag, dep, componentLag, bom, componentMetrics)]
       ELSE UNCHANGED lagResult
    /\ createResult' = [createResult EXCEPT !.next = @ + 1]
    /\ UNCHANGED <<componentMetrics, hotPathAnalysis>>
    /\ UNCHANGED <<semverVars, calcVars, graphVars>>

\* Lines 403-408: computeTotals on the four buckets; CreateResult returns.
Finalize ==
    /\ \/ createResult.pc = "totals"
       \/ createResult.pc = "direct" /\ createResult.next > Len(directDeps.deps)
    /\ lagResult' = [bucket \in DOMAIN lagResult |-> computeTotals(lagResult[bucket])]
    /\ createResult' = [createResult EXCEPT !.pc = "done"]
    /\ UNCHANGED <<componentMetrics, hotPathAnalysis>>
    /\ UNCHANGED <<semverVars, calcVars, graphVars>>

(***************************************************************************)
(* The hotpath analysis (hotpaths.go). It reads a bucket's running sums    *)
(* (Libdays, MissedReleases, NumComponents: the Total... fields of         *)
(* TechLagStats) and its component list. A contribution is a whole number, *)
(* a percentage the fraction num/den in lowest terms.                      *)
(***************************************************************************)
HotPathComponent(component, contribution, percentage, cumulative) ==
    [Component |-> component, Contribution |-> contribution,
     PercentageOfTotal |-> percentage, CumulativePercent |-> cumulative]

HotPath(metric, scope, total, threshold, members, top, coverage) ==
    [Metric |-> metric, Scope |-> scope, TotalLag |-> total, HotPathThreshold |-> threshold,
     HotPathComponents |-> members, TopContributors |-> top,
     NumHotPathComponents |-> Len(members), HotPathCoverage |-> coverage]

\* (part / total) * 100.
Percent(part, total) == Ratio(part * 100, total)

\* Lines 80-90 and 181-191: the components with a positive contribution, in the
\* order of the bucket's list.
RECURSIVE contributorsOf(_, _, _)
contributorsOf(cls, field, total) ==
    IF cls = <<>> THEN <<>>
    ELSE LET comp == cls[1]
             rest == contributorsOf(Tail(cls), field, total)
         IN IF comp.TechnicalLag[field] > 0
            THEN <<HotPathComponent(comp.Component, comp.TechnicalLag[field],
                                    Percent(comp.TechnicalLag[field], total), ZeroScore)>>
                 \o rest
            ELSE rest

\* sort.Slice with the comparison Contribution > Contribution (lines 93-95, 194-196):
\* the orders it may leave the slice in. sort.Slice is not a stable sort: elements
\* of equal contribution may end in any order.
sortSlice(contributors) ==
    LET n == Len(contributors)
        descending == {f \in Permutations(1..n) :
                          \A i, j \in 1..n :
                              i < j => contributors[f[i]].Contribution
                                          >= contributors[f[j]].Contribution}
    IN {[i \in 1..n |-> contributors[f[i]]] : f \in descending}

\* A plausible slip: the walk goes on until the threshold is exceeded.
RECURSIVE walkUntilExceeded(_, _, _, _)
walkUntilExceeded(contributors, total, i, cumulativeContribution) ==
    IF i > Len(contributors) THEN <<>>
    ELSE LET cumulative == cumulativeContribution + contributors[i].Contribution
             entry == [contributors[i] EXCEPT !.CumulativePercent = Percent(cumulative, total)]
         IN <<entry>> \o (IF 2 * cumulative > total THEN <<>>
                          ELSE walkUntilExceeded(contributors, total, i + 1, cumulative))

\* A plausible slip: the walk stops before it takes the component that reaches the
\* threshold.
RECURSIVE walkStoppingShort(_, _, _, _)
walkStoppingShort(contributors, total, i, cumulativeContribution) ==
    IF i > Len(contributors) THEN <<>>
    ELSE LET cumulative == cumulativeContribution + contributors[i].Contribution
             entry == [contributors[i] EXCEPT !.CumulativePercent = Percent(cumulative, total)]
         IN IF 2 * cumulative >= total /\ i > 1 THEN <<>>
            ELSE <<entry>> \o walkStoppingShort(contributors, total, i + 1, cumulative)

\* Lines 102-114 and 203-215: the walk over the sorted contributors from position
\* i on; it stops behind the element with which the cumulative contribution reaches
\* threshold = total * 0.5.
RECURSIVE walk(_, _, _, _)
walk(contributors, total, i, cumulativeContribution) ==
    IF i > Len(contributors) THEN <<>>
    ELSE LET cumulative == cumulativeContribution + contributors[i].Contribution
             entry == [contributors[i] EXCEPT !.CumulativePercent = Percent(cumulative, total)]
         IN <<entry>> \o (IF 2 * cumulative >= total THEN <<>>
                          ELSE walk(contributors, total, i + 1, cumulative))

RECURSIVE SumContribution(_)
SumContribution(members) ==
    IF members = <<>> THEN 0 ELSE members[1].Contribution + SumContribution(Tail(members))

TopN == 10

\* Lines 117-120: the sorted contributors, the walked ones with their cumulative
\* percentage, cut to the first ten.
topContributorsOf(contributors, members) ==
    LET all == members \o SubSeq(contributors, Len(members) + 1, Len(contributors))
    IN IF Len(all) > TopN THEN SubSeq(all, 1, TopN) ELSE all

\* A plausible slip: the coverage is taken over all contributors.
hotPathCoverageOfAll(contributors, members, total) ==
    IF Len(members) > 0 THEN Percent(SumContribution(contributors), total) ELSE ZeroScore

\* Lines 123-130: 0 for an empty hotpath.
hotPathCoverage(contributors, members, total) ==
    IF Len(members) > 0 THEN Percent(SumContribution(members), total) ELSE ZeroScore

\* The part the two analyses share: sorted is what sort.Slice left.
analyzeHotPath(metric, scope, total, sorted) ==
    LET members == walk(sorted, total, 1, 0)
    IN HotPath(metric, scope, total, Ratio(total, 2), members,
               topContributorsOf(sorted, members), hotPathCoverage(sorted, members, total))

analyzeLibyearsHotPath(stats, scope, sorted) ==
    analyzeHotPath("libyears", scope, stats.TotalLibdays, sorted)

analyzeVersionDistanceHotPath(stats, scope, sorted) ==
    analyzeHotPath("versionDistance", scope, stats.TotalMissedReleases, sorted)

\* The scopes in the order AnalyzeLibyearsHotPaths and AnalyzeVersionDistanceHotPaths
\* go through them, with the bucket of each.
Scopes == <<"production", "optional", "directProduction", "directOptional">>
BucketOf == [production |-> "Production", optional |-> "Optional",
             directProduction |-> "DirectProduction", directOptional |-> "DirectOptional"]

\* CreateHotPathAnalysis (line 246) is called on the Result CreateResult returned.
CreateHotPathAnalysisStart ==
    /\ createResult.pc = "done"
    /\ hotPathAnalysis.pc = "idle"
    /\ hotPathAnalysis' = [hotPathAnalysis EXCEPT !.pc = "libyears"]
    /\ UNCHANGED <<componentMetrics, lagResult, createResult>>
    /\ UNCHANGED <<semverVars, calcVars, graphVars>>

\* AnalyzeLibyearsHotPaths, lines 48-69: the next scope; a bucket without components
\* is left out.
AnalyzeLibyearsScope ==
    /\ hotPathAnalysis.pc = "libyears"
    /\ LET scope == Scopes[hotPathAnalysis.next]
           stats == lagResult[BucketOf[scope]]
           last == hotPathAnalysis.next = Len(Scopes)
           after == [hotPathAnalysis EXCEPT
                        !.pc = IF last THEN "versionDistance" ELSE @,
                        !.next = IF last THEN 1 ELSE @ + 1]
       IN IF stats.TotalNumComponents > 0
          THEN \E sorted \in sortSlice(contributorsOf(stats.Components, "Libdays",
                                                      stats.TotalLibdays)) :
                  hotPathAnalysis' =
                      [after EXCEPT !.libyearsHotPaths =
                          Append(@, analyzeLibyearsHotPath(stats, scope, sorted))]
          ELSE hotPathAnalysis' = after
    /\ UNCHANGED <<componentMetrics, lagResult, createResult>>
    /\ UNCHANGED <<semverVars, calcVars, graphVars>>

\* AnalyzeVersionDistanceHotPaths, lines 149-170.
AnalyzeVersionDistanceScope ==
    /\ hotPathAnalysis.pc = "versionDistance"
    /\ LET scope == Scopes[hotPathAnalysis.next]
           stats == lagResult[BucketOf[scope]]
           last == hotPathAnalysis.next = Len(Scopes)
           after == [hotPathAnalysis EXCEPT
                        !.pc = IF last THEN "done" ELSE @,
                        !.next = IF last THEN 1 ELSE @ + 1]
       IN IF stats.TotalNumComponents > 0
          THEN \E sorted \in sortSlice(contributorsOf(stats.Components, "MissedReleases",
                                                      stats.TotalMissedReleases)) :
                  hotPathAnalysis' =
                      [after EXCEPT !.versionDistanceHotPaths =
                          Append(@, analyzeVersionDistanceHotPath(stats, scope, sorted))]
          ELSE hotPathAnalysis' = after
    /\ UNCHANGED <<componentMetrics, lagResult, createResult>>
    /\ UNCHANGED <<semverVars, calcVars, graphVars>>

CreateHotPathAnalysis ==
    \/ CreateHotPathAnalysisStart
    \/ AnalyzeLibyearsScope
    \/ AnalyzeVersionDistanceScope

NextResult ==
    \/ CreateResultStart
    \/ ProcessComponent
    \/ StartDirect
    \/ ProcessDirectDep
    \/ Finalize

SpecResult == InitResult /\ [][NextResult]_vars

\* CreateResult followed by CreateHotPathAnalysis on the Result it returned.
NextResultHotPath ==
    \/ CreateResultStart
    \/ ProcessComponent
    \/ StartDirect
    \/ ProcessDirectDep
    \/ Finalize
    \/ CreateHotPathAnalysis

SpecResultHotPath == InitResult /\ [][NextResultHotPath]_vars

(***************************************************************************)
(* Properties of CreateResult (SpecResult)                                 *)
(***************************************************************************)
BucketNames == {"Production", "Optional", "DirectProduction", "DirectOptional"}

\* How often a component is listed in a bucket.
Count(component, bucket) ==
    Cardinality({i \in 1..Len(lagResult[bucket].Components) :
                    lagResult[bucket].Components[i].Component = component})

Listed(bucket) ==
    {lagResult[bucket].Components[i].Component : i \in 1..Len(lagResult[bucket].Components)}

HasLag(component) == component \in DOMAIN componentMetrics

ProductionScoped(component) == component.Scope \in {"", "required", "runtime"}

\* The components the root's dependency entry lists.
RootDirect ==
    IF MissingStructure THEN {}
    ELSE {c \in RefsOf(bom.components) : c.BOMRef \in RefsOf(Adjacent(bom, bom.projectRef))}

\* C14: CreateResult lists every component with a lag once, in Production if its
\* scope is empty, "required" or "runtime" and in Optional otherwise; it lists the
\* root's direct dependencies with a lag once in DirectProduction or DirectOptional
\* by the same rule; and it lists nothing else.
C14_ScopeBuckets ==
    createResult.pc = "done" =>
        /\ \A c \in DOMAIN componentMetrics :
              /\ Count(c, "Production") = (IF ProductionScoped(c) THEN 1 ELSE 0)
              /\ Count(c, "Optional") = (IF ProductionScoped(c) THEN 0 ELSE 1)
        /\ \A c \in RootDirect \cap DOMAIN componentMetrics :
              /\ Count(c, "DirectProduction") = (IF ProductionScoped(c) THEN 1 ELSE 0)
              /\ Count(c, "DirectOptional") = (IF ProductionScoped(c) THEN 0 ELSE 1)
        /\ Listed("Production") \cup Listed("Optional") \subseteq DOMAIN componentMetrics
        /\ Listed("DirectProduction") \cup Listed("DirectOptional")
              \subseteq (RootDirect \cap DOMAIN componentMetrics)

\* All four buckets are filled, a "runtime" component is in Production, and a direct
\* dependency without lag is left out.
C14_Witness ==
    /\ createResult.pc = "done"
    /\ \A bucket \in BucketNames : Listed(bucket) # {}
    /\ \E c \in Listed("DirectProduction") : c.Scope = "runtime"
    /\ \E c \in RootDirect : ~HasLag(c)

\* The components a component's dependency entry lists; none if the manifest lacks
\* the structure to tell.
DirectDependenciesOf(component) ==
    IF MissingStructure THEN {}
    ELSE {c \in RefsOf(bom.components) : c.BOMRef \in RefsOf(Adjacent(bom, component.BOMRef))}

DirectDependencyLibdays(component) ==
    SumLibdaysOf(componentMetrics, DirectDependenciesOf(component) \cap DOMAIN componentMetrics)

BucketLibdays(bucket) == SumField(lagResult[bucket].Components, "Libdays")

Entries(bucket) == {lagResult[bucket].Components[i] : i \in 1..Len(lagResult[bucket].Components)}

\* C15: the CriticalityScore of every listed component is the lag of its direct
\* dependencies that have a lag, over the lag of all components of its bucket; it is
\* 0 when that total is 0 or when no direct dependency has lag data.
C15_CriticalityScore ==
    createResult.pc = "done" =>
        \A bucket \in BucketNames : \A e \in Entries(bucket) :
            IF BucketLibdays(bucket) = 0 \/ DirectDependencyLibdays(e.Component) = 0
            THEN e.CriticalityScore = ZeroScore
            ELSE e.CriticalityScore.num * BucketLibdays(bucket)
                    = DirectDependencyLibdays(e.Component) * e.CriticalityScore.den

\* A direct dependency whose own dependencies hold a proper part of the bucket's lag,
\* next to a component of positive lag whose score is 0.
C15_Witness ==
    /\ createResult.pc = "done"
    /\ \E bucket \in {"DirectProduction", "DirectOptional"} :
          /\ \E e \in Entries(bucket) :
                /\ e.CriticalityScore.num > 0
                /\ e.CriticalityScore.num < e.CriticalityScore.den
          /\ \E e \in Entries(bucket) :
                e.CriticalityScore = ZeroScore /\ e.TechnicalLag.Libdays > 0

\* C16: every CriticalityScore in every bucket is at least 0, and at most 1 whenever
\* the lag of the component's direct dependencies does not exceed the lag of its
\* bucket.
C16_ScoreRange ==
    createResult.pc = "done" =>
        \A bucket \in BucketNames : \A e \in Entries(bucket) :
            /\ e.CriticalityScore.den > 0
            /\ e.CriticalityScore.num >= 0
            /\ DirectDependencyLibdays(e.Component) <= BucketLibdays(bucket)
                  => e.CriticalityScore.num <= e.CriticalityScore.den

\* One component's dependencies hold all of the bucket's lag (score 1), another's
\* hold part of it, and in another bucket a score exceeds 1 because the dependencies'
\* lag exceeds the bucket's.
C16_Witness ==
    /\ createResult.pc = "done"
    /\ \E bucket \in BucketNames : \E e, f \in Entries(bucket) :
          /\ e.CriticalityScore = Ratio(1, 1)
          /\ f.CriticalityScore.num > 0
          /\ f.CriticalityScore.num < f.CriticalityScore.den
    /\ \E bucket \in BucketNames : \E e \in Entries(bucket) :
          /\ e.CriticalityScore.num > e.CriticalityScore.den
          /\ DirectDependencyLibdays(e.Component) > BucketLibdays(bucket)

Processed(bucket) == lagResult[bucket].Components

\* The first of the processed components whose value is the greatest, provided that
\* value is positive; value(e) is the value of entry e, more(x, y) says that x exceeds y.
FirstGreatest(cls, value(_), more(_, _), zero) ==
    LET top == {i \in 1..Len(cls) : \A j \in 1..Len(cls) : ~more(value(cls[j]), value(cls[i]))}
        first == CHOOSE i \in top : \A j \in top : i <= j
    IN IF cls = <<>> \/ ~more(value(cls[first]), zero)
       THEN [value |-> zero, component |-> ZeroComponent]
       ELSE [value |-> value(cls[first]), component |-> cls[first].Component]

LibdaysOf(e) == e.TechnicalLag.Libdays
MissedReleasesOf(e) == e.TechnicalLag.MissedReleases
ScoreOf(e) == e.CriticalityScore
More(x, y) == x > y

\* C17: after every updateTechLagStats call, in every bucket, each highest tracker
\* holds the greatest value among the components processed so far together with the
\* first component that reached it; a value of 0 is never recorded with a component.
C17_HighestTrackers ==
    createResult.pc # "idle" =>
        \A bucket \in BucketNames :
            LET stats == lagResult[bucket]
                libdays == FirstGreatest(Processed(bucket), LibdaysOf, More, 0)
                missed == FirstGreatest(Processed(bucket), MissedReleasesOf, More, 0)
                score == FirstGreatest(Processed(bucket), ScoreOf, Greater, ZeroScore)
            IN /\ stats.HighestLibdays = libdays.value
               /\ stats.ComponentHighestLibdays = libdays.component
               /\ stats.HighestMissedReleases = missed.value
               /\ stats.ComponentHighestMissedReleases = missed.component
               /\ stats.HighestCriticalityScore = score.value
               /\ stats.ComponentHighestCriticalityScore = score.component

\* Two components of one bucket share the greatest lag and the first one is recorded;
\* the bucket's criticality scores are all 0 and no component is recorded for them.
C17_Witness ==
    /\ createResult.pc # "idle"
    /\ \E bucket \in BucketNames :
          LET cls == Processed(bucket) IN
          /\ \E i, j \in 1..Len(cls) :
                /\ i < j
                /\ LibdaysOf(cls[i]) = lagResult[bucket].HighestLibdays
                /\ LibdaysOf(cls[j]) = lagResult[bucket].HighestLibdays
                /\ lagResult[bucket].HighestLibdays > 0
                /\ lagResult[bucket].ComponentHighestLibdays = cls[i].Component
          /\ lagResult[bucket].ComponentHighestCriticalityScore = ZeroComponent

(***************************************************************************)
(* SpecHotPath: CreateHotPathAnalysis on a Result whose production bucket  *)
(* holds up to NumRefs components; the lags include the examples 30/25/45, *)
(* equal contributions, and a contribution of exactly half the total.      *)
(***************************************************************************)
HotPathLags ==
    { TechnicalLag(0, VersionDistance("", 0, 0, 0, 0)),
      TechnicalLag(0, VersionDistance("", 3, 0, 0, 3)),
      TechnicalLag(25, VersionDistance("", 2, 0, 1, 1)),
      TechnicalLag(30, VersionDistance("", 1, 1, 0, 0)),
      TechnicalLag(45, VersionDistance("", 1, 0, 1, 0)) }

\* A bucket as updateTechLagStats and computeTotals leave it, as far as the analysis
\* reads it: the component list and its sums.
BucketWith(lags, scope) ==
    computeTotals([TechLagStats EXCEPT
        !.Components = [i \in 1..Len(lags) |->
                           ComponentLag(GraphComponent(RefNames[i], scope), lags[i],
                                        ZeroScore)]])

\* The optional bucket is empty or holds one component without any lag.
HotPathResults ==
    {[Result EXCEPT !.Production = BucketWith(lags, "required"),
                    !.Optional = BucketWith(none, "optional")] :
        lags \in UNION {[1..n -> HotPathLags] : n \in 0..NumRefs},
        none \in {<<>>, <<NoLag>>}}

InitHotPath ==
    /\ InitCalcIdle
    /\ InitSemverIdle
    /\ InitGraphIdle
    /\ componentMetrics = <<>>
    /\ lagResult \in HotPathResults
    /\ createResult = [pc |-> "done", remaining |-> {}, next |-> 1]
    /\ hotPathAnalysis = NotAnalyzed

NextHotPath == CreateHotPathAnalysis

SpecHotPath == InitHotPath /\ [][NextHotPath]_vars

(***************************************************************************)
(* Properties of the hotpath analysis                                      *)
(***************************************************************************)
\* The HotPath results computed so far, with the bucket each was computed from.
Analyses ==
    {[hotPath |-> hotPathAnalysis.libyearsHotPaths[i], field |-> "Libdays"] :
        i \in 1..Len(hotPathAnalysis.libyearsHotPaths)}
    \cup {[hotPath |-> hotPathAnalysis.versionDistanceHotPaths[i], field |-> "MissedReleases"] :
             i \in 1..Len(hotPathAnalysis.versionDistanceHotPaths)}

BucketComponents(a) == lagResult[BucketOf[a.hotPath.Scope]].Components
ContributionOf(a, e) == e.TechnicalLag[a.field]
BucketTotal(a) == SumField(BucketComponents(a), a.field)

\* The positions of the bucket's list with a positive contribution.
Positive(a) == {i \in 1..Len(BucketComponents(a)) : ContributionOf(a, BucketComponents(a)[i]) > 0}

\* The position of a component in the bucket's list.
Index(a, component) ==
    CHOOSE k \in 1..Len(BucketComponents(a)) : BucketComponents(a)[k].Component = component

PrefixSum(listed, n) == SumContribution(SubSeq(listed, 1, n))

RECURSIVE SumAt(_, _)
SumAt(a, S) ==
    IF S = {} THEN 0
    ELSE LET k == CHOOSE x \in S : TRUE
         IN ContributionOf(a, BucketComponents(a)[k]) + SumAt(a, S \ {k})

\* C21: the contributors of a bucket are exactly its components with a contribution
\* greater than 0, each once and with its contribution, in descending order of
\* contribution, and contributors of equal contribution stand in the order they have
\* in the bucket's component list.
C21_ContributorsStable ==
    \A a \in Analyses :
        LET top == a.hotPath.TopContributors IN
        /\ Len(top) = Cardinality(Positive(a))
        /\ \A i \in 1..Len(top) :
              \E k \in Positive(a) :
                  /\ BucketComponents(a)[k].Component = top[i].Component
                  /\ ContributionOf(a, BucketComponents(a)[k]) = top[i].Contribution
        /\ \A k \in Positive(a) :
              \E i \in 1..Len(top) : top[i].Component = BucketComponents(a)[k].Component
        /\ \A i, j \in 1..Len(top) :
              i < j =>
                  /\ top[i].Contribution >= top[j].Contribution
                  /\ top[i].Contribution = top[j].Contribution
                        => Index(a, top[i].Component) < Index(a, top[j].Component)

\* The least number of leading contributors whose contributions sum to at least half
\* of the total.
ShortestPrefix(listed, total) ==
    CHOOSE n \in 0..Len(listed) :
        /\ 2 * PrefixSum(listed, n) >= total
        /\ \A m \in 0..(n - 1) : 2 * PrefixSum(listed, m) < total

\* C22: the hotpath set is the shortest prefix of the sorted contributors whose
\* contributions sum to at least threshold x total (threshold 0.5); it is empty when
\* the total is 0; and no set of fewer components of the bucket reaches that sum.
C22_ShortestPrefix ==
    \A a \in Analyses :
        LET top == a.hotPath.TopContributors
            members == a.hotPath.HotPathComponents
            total == BucketTotal(a)
        IN /\ a.hotPath.TotalLag = total
           /\ a.hotPath.HotPathThreshold = Ratio(total, 2)
           /\ a.hotPath.NumHotPathComponents = Len(members)
           /\ Len(members) <= Len(top)
           /\ members = SubSeq(top, 1, Len(members))
           /\ Len(members) = ShortestPrefix(top, total)
           /\ total = 0 => members = <<>>
           /\ \A S \in SUBSET (1..Len(BucketComponents(a))) :
                 Cardinality(S) < Len(members) => 2 * SumAt(a, S) < total

\* Two of three equal contributors make up the hotpath of one bucket, the most that
\* one contributor holds is a third, and a bucket without any lag has been analysed.
C22_Witness ==
    /\ hotPathAnalysis.pc = "done"
    /\ \E a \in Analyses :
          /\ Len(a.hotPath.TopContributors) = 3
          /\ Len(a.hotPath.HotPathComponents) = 2
          /\ a.hotPath.TopContributors[1].Contribution = a.hotPath.TopContributors[3].Contribution
    /\ \E a \in Analyses : BucketTotal(a) = 0 /\ a.hotPath.HotPathComponents = <<>>

Members(a) == {a.hotPath.HotPathComponents[i].Component :
                  i \in 1..Len(a.hotPath.HotPathComponents)}

ThresholdPercent == Ratio(50, 1)
AtLeast(x, y) == ~Greater(y, x)

\* C23 as stated: HotPathCoverage is (sum of the members' contributions / total) x 100
\* and at least the threshold percentage whenever the positive contributions suffice
\* to reach the threshold; otherwise the hotpath set is the set of all components
\* with a positive contribution and the coverage is 100%.
C23_CoverageOrAll ==
    \A a \in Analyses :
        LET h == a.hotPath
            total == BucketTotal(a)
            enough == Positive(a) # {} /\ 2 * SumAt(a, Positive(a)) >= total
        IN IF enough
           THEN /\ h.HotPathCoverage = Percent(SumContribution(h.HotPathComponents), total)
                /\ AtLeast(h.HotPathCoverage, ThresholdPercent)
           ELSE /\ Members(a) = {BucketComponents(a)[k].Component : k \in Positive(a)}
                /\ h.HotPathCoverage = Ratio(100, 1)

\* C23, amended: when the bucket's total is positive, HotPathCoverage is (sum of the
\* members' contributions / total) x 100 and at least the threshold percentage; when
\* the total is 0, the hotpath set is empty and HotPathCoverage is 0.
C23_CoverageOrZero ==
    \A a \in Analyses :
        LET h == a.hotPath
            total == BucketTotal(a)
        IN IF total > 0
           THEN /\ h.HotPathCoverage = Percent(SumContribution(h.HotPathComponents), total)
                /\ AtLeast(h.HotPathCoverage, ThresholdPercent)
           ELSE /\ h.HotPathComponents = <<>>
                /\ h.HotPathCoverage = ZeroScore

\* The example: contributions 30, 25, 45 of a total of 100 give the hotpath (45, 30)
\* and a coverage of 75; next to it a bucket without lag with coverage 0.
C23_Witness ==
    /\ hotPathAnalysis.pc = "done"
    /\ \E a \in Analyses :
          /\ a.field = "Libdays"
          /\ [i \in 1..Len(BucketComponents(a)) |-> ContributionOf(a, BucketComponents(a)[i])]
                = <<30, 25, 45>>
          /\ [i \in 1..2 |-> a.hotPath.HotPathComponents[i].Contribution] = <<45, 30>>
          /\ a.hotPath.NumHotPathComponents = 2
          /\ a.hotPath.HotPathCoverage = Ratio(75, 1)
    /\ \E a \in Analyses :
          /\ BucketComponents(a) # <<>>
          /\ BucketTotal(a) = 0
          /\ a.hotPath.HotPathCoverage = ZeroScore

Processing == {w \in DOMAIN worker : worker[w].pc \in {"calculate", "send"}}

\* C25: never are more jobs being processed at once than the pool size, and no more
\* workers exist than that; the pool size is the size asked for, or 10 if that is
\* 0 or less; the package-level Calculate runs with a pool of 10.
C25_PoolSize ==
    /\ Cardinality(Processing) <= maxWorkers
    /\ Len(worker) <= maxWorkers
    /\ maxWorkers = (IF configured.maxWorkers <= 0 THEN 10 ELSE configured.maxWorkers)
    /\ configured.entry = "Calculate" => maxWorkers = 10

\* A Calculator asked for no workers runs ten; all of them have been started and one
\* holds the job.
C25_Witness ==
    /\ configured.entry = "NewCalculator"
    /\ configured.maxWorkers <= 0
    /\ Len(worker) = 10
    /\ Processing # {}

(***************************************************************************)
(* Properties of the buckets' totals and dependency paths (SpecResult)     *)
(***************************************************************************)
\* The sum of one field of the lag over the positions S of a bucket's list.
RECURSIVE SumOfField(_, _, _)
SumOfField(cls, field, S) ==
    IF S = {} THEN 0
    ELSE LET k == CHOOSE x \in S : TRUE
         IN cls[k].TechnicalLag[field] + SumOfField(cls, field, S \ {k})

TotalsAreSums(stats) ==
    LET all == DOMAIN stats.Components IN
    /\ stats.TotalLibdays = SumOfField(stats.Components, "Libdays", all)
    /\ stats.TotalMissedReleases = SumOfField(stats.Components, "MissedReleases", all)
    /\ stats.TotalMissedMajor = SumOfField(stats.Components, "MissedMajor", all)
    /\ stats.TotalMissedMinor = SumOfField(stats.Components, "MissedMinor", all)
    /\ stats.TotalMissedPatch = SumOfField(stats.Components, "MissedPatch", all)
    /\ stats.TotalNumComponents = Len(stats.Components)

\* C26: after every updateTechLagStats call and after computeTotals, the totals of
\* every bucket are the sums over its component list and TotalNumComponents is the
\* length of that list; computeTotals, called once more or twice, changes nothing.
C26_TotalsAreSums ==
    createResult.pc # "idle" =>
        \A bucket \in BucketNames :
            /\ TotalsAreSums(lagResult[bucket])
            /\ computeTotals(lagResult[bucket]) = lagResult[bucket]
            /\ computeTotals(computeTotals(lagResult[bucket])) = lagResult[bucket]

\* Before computeTotals has run, a bucket holds two components and each of its totals
\* is positive.
C26_Witness ==
    /\ createResult.pc = "direct"
    /\ \E bucket \in BucketNames :
          LET stats == lagResult[bucket] IN
          /\ Len(stats.Components) >= 2
          /\ stats.TotalLibdays > 0
          /\ stats.TotalMissedMajor > 0
          /\ stats.TotalMissedMinor > 0
          /\ stats.TotalMissedPatch > 0

\* The shortest routes from the root to a reachable reference: the references behind
\* the root, each listed by the dependency entry of the one before.
Routes(t) ==
    {r \in [1..Distance(t) -> RefsOf([i \in 1..Len(bom.components) |-> bom.components[i].BOMRef])] :
        /\ r[1] \in RefsOf(Adjacent(bom, bom.projectRef))
        /\ \A i \in 1..(Distance(t) - 1) : r[i + 1] \in RefsOf(Adjacent(bom, r[i]))
        /\ r[Distance(t)] = t}

WithLag(ref) == \E c \in DOMAIN componentMetrics : c.BOMRef = ref

\* The lag of the components of the same kind of scope.
ScopeLibdays(component) ==
    SumLibdaysOf(componentMetrics,
                 {c \in DOMAIN componentMetrics : ProductionScoped(c) = ProductionScoped(component)})

\* A score derived for a component of a path: the lag of its direct dependencies
\* over the lag of its scope.
IsDerivedScore(score, component) ==
    IF ScopeLibdays(component) = 0 \/ DirectDependencyLibdays(component) = 0
    THEN score = ZeroScore
    ELSE score.num * ScopeLibdays(component) = DirectDependencyLibdays(component) * score.den

\* C27: in every bucket and after every update, the stored path is empty or ends with
\* the component recorded as highest-criticality, which carries the recorded score.
\* If that component can be reached from the manifest's root, the path holds, in
\* order, the components with a lag of a shortest route from the root to it, each
\* with its own lag and all but the last with a score derived for it; if it cannot
\* be reached, or no component is recorded, the path is empty.
C27_PathOfHighest ==
    createResult.pc # "idle" =>
        \A bucket \in BucketNames :
            LET stats == lagResult[bucket]
                highest == stats.ComponentHighestCriticalityScore
                stored == stats.ComponentHighestCriticalityScorePath
                n == Len(stored.path)
                refs == [i \in 1..n |-> stored.path[i].Component.BOMRef]
            IN /\ stored.isNil <=> stored.path = <<>>
               /\ ~stored.isNil =>
                     /\ stored.path[n].Component = highest
                     /\ stored.path[n].CriticalityScore = stats.HighestCriticalityScore
                     /\ \E i \in 1..Len(stats.Components) :
                           stats.Components[i] = stored.path[n]
               /\ \A i \in 1..n :
                     /\ stored.path[i].Component \in DOMAIN componentMetrics
                     /\ stored.path[i].TechnicalLag = componentMetrics[stored.path[i].Component]
                     /\ i < n => IsDerivedScore(stored.path[i].CriticalityScore,
                                                stored.path[i].Component)
               /\ IF highest # ZeroComponent /\ ~MissingStructure /\ Reachable(highest.BOMRef)
                  THEN \E r \in Routes(highest.BOMRef) : refs = SelectSeq(r, WithLag)
                  ELSE stored.isNil

\* A bucket in which a component with a positive score was processed before the one
\* now recorded with a higher score; the stored path leads over another component to
\* the recorded one, and that other component has a positive score of its own.
C27_Witness ==
    /\ createResult.pc # "idle"
    /\ \E bucket \in BucketNames :
          LET stats == lagResult[bucket]
              stored == stats.ComponentHighestCriticalityScorePath
          IN /\ \E i, j \in 1..Len(stats.Components) :
                   /\ i < j
                   /\ Greater(stats.Components[i].CriticalityScore, ZeroScore)
                   /\ Greater(stats.Components[j].CriticalityScore,
                              stats.Components[i].CriticalityScore)
                   /\ stats.Components[j].Component = stats.ComponentHighestCriticalityScore
             /\ Len(stored.path) >= 2
             /\ Greater(stored.path[1].CriticalityScore, ZeroScore)

(***************************************************************************)
(* Further properties of GetVersionDistance (SpecSemver)                   *)
(***************************************************************************)
\* C28: whenever GetVersionDistance returns a result, MissedReleases is the number of
\* candidates that parse, carry no pre-release tag and are strictly greater than the
\* used version; candidates equal to the used version are not counted, however many
\* there are.
C28_OnlyGreaterCounted ==
    distance.err = "" =>
        distance.MissedReleases
            = Cardinality({i \in StablePositions : Compare(Candidate(i), UsedSemver) > 0})

(***************************************************************************)
(* Further properties of Calculator.Calculate (SpecCalculate)              *)
(***************************************************************************)
\* C29: the result channel never holds more results than its capacity, the number
\* of components; a worker that holds a result finds the channel open and with room,
\* so that its send does not wait; the channel is closed only by the closing
\* goroutine, once, and then every worker has exited and none holds a job or a
\* result - whether or not the context is cancelled and however late the main flow
\* collects.
C29_ResultsNeverBlock ==
    PoolStarted =>
        /\ Len(results) <= Capacity
        /\ Len(results) + Cardinality(Processing) <= Capacity
        /\ \A w \in Workers :
              worker[w].pc = "send" => (~resultsClosed /\ Len(results) < Capacity)
        /\ resultsClosed <=> closer = "done"
        /\ resultsClosed => (wg = 0 /\ \A w \in Workers : worker[w].pc = "exited")
        /\ returned = "map" => resultsClosed

\* The context is cancelled, the main flow has collected nothing, the channel is full
\* and still open.
C29_Witness ==
    /\ PoolStarted
    /\ cancelled
    /\ Capacity >= 2
    /\ Len(results) = Capacity
    /\ ~resultsClosed
    /\ componentToLag = <<>>
    /\ errorCount = 0

(***************************************************************************)
(* The order of the range over componentMetrics (SpecResultHotPath)        *)
(***************************************************************************)
\* One iteration of CreateResult's first loop on a Result, as an operator.
Visit(res, component) ==
    LET lag == componentMetrics[component]
        score == CalculateCriticalityScore(component, bom, componentMetrics,
                     TotalScopeLibyears(componentMetrics, isProductionScope(component.Scope)))
    IN [res EXCEPT ![Bucket(component, FALSE)] =
           updateTechLagStats(@, lag, component, ComponentLag(component, lag, score), bom,
                              componentMetrics)]

RECURSIVE VisitInOrder(_, _)
VisitInOrder(res, order) ==
    IF order = <<>> THEN res ELSE VisitInOrder(Visit(res, order[1]), Tail(order))

\* The buckets of all components if the map's keys are visited in the order of the
\* manifest's component list.
VisitedInListOrder ==
    VisitInOrder(Result, SelectSeq(bom.components, HasLag))

\* Contributors sorted by descending contribution, equal ones in their given order.
RECURSIVE InsertDescending(_, _)
InsertDescending(sorted, x) ==
    IF sorted = <<>> THEN <<x>>
    ELSE IF sorted[1].Contribution >= x.Contribution
    THEN <<sorted[1]>> \o InsertDescending(Tail(sorted), x)
    ELSE <<x>> \o sorted

RECURSIVE SortedStably(_)
SortedStably(s) ==
    IF s = <<>> THEN <<>>
    ELSE InsertDescending(SortedStably(SubSeq(s, 1, Len(s) - 1)), s[Len(s)])

ComponentsOf(listed) == [i \in 1..Len(listed) |-> listed[i].Component]

\* The members and top contributors of the analysis of a bucket visited in list order.
ListOrderHotPath(a) ==
    LET stats == VisitedInListOrder[BucketOf[a.hotPath.Scope]]
        total == SumField(stats.Components, a.field)
    IN analyzeHotPath(a.hotPath.Metric, a.hotPath.Scope, total,
                      SortedStably(contributorsOf(stats.Components, a.field, total)))

\* C30: for a manifest and a map, whatever the order in which the range over the map
\* visits its entries, the component buckets record the same highest-Libdays,
\* highest-missed-releases and highest-criticality components and the same path,
\* and their hotpath analyses list the same members and the same top contributors:
\* those of a visit in the order of the manifest's component list.
C30_VisitingOrderIrrelevant ==
    /\ createResult.pc = "done" =>
          \A bucket \in {"Production", "Optional"} :
              LET stats == lagResult[bucket]
                  other == VisitedInListOrder[bucket]
              IN /\ stats.ComponentHighestLibdays = other.ComponentHighestLibdays
                 /\ stats.ComponentHighestMissedReleases = other.ComponentHighestMissedReleases
                 /\ stats.ComponentHighestCriticalityScore
                       = other.ComponentHighestCriticalityScore
                 /\ stats.ComponentHighestCriticalityScorePath
                       = other.ComponentHighestCriticalityScorePath
    /\ \A a \in Analyses :
          a.hotPath.Scope \in {"production", "optional"} =>
              /\ ComponentsOf(a.hotPath.HotPathComponents)
                    = ComponentsOf(ListOrderHotPath(a).HotPathComponents)
              /\ ComponentsOf(a.hotPath.TopContributors)
                    = ComponentsOf(ListOrderHotPath(a).TopContributors)

====
